---- MODULE Spec2Model ----
(***************************************************************************)
(* DataAlchemist: the validation engine (GeminiProvider.validateData) and  *)
(* the allocation engine (AllocationEngine.executeAllocation).             *)
(*                                                                         *)
(* JavaScript strings are sequences of one-character strings, so that      *)
(* split, trim, toLowerCase, includes, parseInt and JSON.parse are         *)
(* computed and not assumed.  JSON.parse is modelled on the grammar        *)
(*     null | integer | {} | [ integer , ... ]                             *)
(* (surrounded by optional blanks); every other text the model uses is     *)
(* not JSON and makes it throw.                                            *)
(***************************************************************************)
EXTENDS Integers, Sequences, FiniteSets, TLC

(***************************************************************************)
(* Bounds of the model.                                                    *)
(***************************************************************************)
MaxWorkers == 2
MaxRuns == 2

(***************************************************************************)
(* String primitives of the JavaScript runtime.                            *)
(***************************************************************************)
Digits == <<"0", "1", "2", "3", "4", "5", "6", "7", "8", "9">>

IsDigit(c) == \E i \in 1..10 : Digits[i] = c

DigitVal(c) == (CHOOSE i \in 1..10 : Digits[i] = c) - 1

\* String.prototype.toLowerCase, on the letters A to Z
UpperCase ==
  <<"A", "B", "C", "D", "E", "F", "G", "H", "I", "J", "K", "L", "M", "N",
    "O", "P", "Q", "R", "S", "T", "U", "V", "W", "X", "Y", "Z">>

LowerCase ==
  <<"a", "b", "c", "d", "e", "f", "g", "h", "i", "j", "k", "l", "m", "n",
    "o", "p", "q", "r", "s", "t", "u", "v", "w", "x", "y", "z">>

LowerChar(c) ==
  IF \E i \in 1..Len(UpperCase) : UpperCase[i] = c
    THEN LowerCase[CHOOSE i \in 1..Len(UpperCase) : UpperCase[i] = c]
    ELSE c

toLowerCase(s) == [i \in 1..Len(s) |-> LowerChar(s[i])]

\* String.prototype.trim (blanks are the only white space the texts use)
RECURSIVE trimStart(_)
trimStart(s) == IF s # <<>> /\ Head(s) = " " THEN trimStart(Tail(s)) ELSE s

RECURSIVE trimEnd(_)
trimEnd(s) ==
  IF s # <<>> /\ s[Len(s)] = " " THEN trimEnd(SubSeq(s, 1, Len(s) - 1)) ELSE s

trim(s) == trimEnd(trimStart(s))

\* String.prototype.includes with a one-character needle
includesChar(s, c) == \E i \in 1..Len(s) : s[i] = c

\* String.prototype.includes with a text needle
includesText(s, sub) ==
  \E i \in 0..(Len(s) - Len(sub)) : SubSeq(s, i + 1, i + Len(sub)) = sub

\* String.prototype.split with a one-character separator: "" gives [""],
\* "a," gives ["a", ""]
RECURSIVE splitAcc(_, _, _)
splitAcc(s, c, cur) ==
  IF s = <<>> THEN <<cur>>
  ELSE IF Head(s) = c THEN <<cur>> \o splitAcc(Tail(s), c, <<>>)
  ELSE splitAcc(Tail(s), c, Append(cur, Head(s)))

split(s, c) == splitAcc(s, c, <<>>)

\* the x.split(',').map(t => t.trim()) idiom used by both engines
splitTrim(s) == LET parts == split(s, ",") IN [i \in 1..Len(parts) |-> trim(parts[i])]

(***************************************************************************)
(* JavaScript values that a parse can return.  A number is NaN or an       *)
(* integer; a JSON value is a tagged record whose v is always a sequence   *)
(* of integers.                                                            *)
(***************************************************************************)
NaN == [nan |-> TRUE, n |-> 0]

Num(n) == [nan |-> FALSE, n |-> n]

RECURSIVE digitsValue(_, _)
digitsValue(s, acc) ==
  IF s = <<>> THEN acc ELSE digitsValue(Tail(s), acc * 10 + DigitVal(Head(s)))

RECURSIVE leadingDigits(_)
leadingDigits(s) ==
  IF s # <<>> /\ IsDigit(Head(s)) THEN <<Head(s)>> \o leadingDigits(Tail(s)) ELSE <<>>

\* parseInt(text): skips leading blanks, reads an optional minus sign and the
\* leading digits, NaN when there is none
parseInt(s) ==
  LET t == trimStart(s)
      neg == t # <<>> /\ Head(t) = "-"
      d == leadingDigits(IF neg THEN Tail(t) ELSE t)
  IN IF d = <<>> THEN NaN
     ELSE Num(IF neg THEN 0 - digitsValue(d, 0) ELSE digitsValue(d, 0))

\* a JSON integer literal: optional minus, digits, no leading zero
IsJsonInt(s) ==
  LET neg == s # <<>> /\ Head(s) = "-"
      d == IF neg THEN Tail(s) ELSE s
  IN /\ d # <<>>
     /\ \A i \in 1..Len(d) : IsDigit(d[i])
     /\ (Len(d) > 1 => d[1] # "0")

JsonIntValue(s) == parseInt(s).n

JThrow == [t |-> "throw", v |-> <<>>]
JNull == [t |-> "null", v |-> <<>>]
JObject == [t |-> "object", v |-> <<>>]
JNumber(n) == [t |-> "number", v |-> <<n>>]
JArray(a) == [t |-> "array", v |-> a]

\* the elements between the brackets of a JSON array
jsonItems(items) ==
  IF \A i \in 1..Len(items) : IsJsonInt(items[i])
    THEN JArray([i \in 1..Len(items) |-> JsonIntValue(items[i])])
    ELSE JThrow

\* a JSON text without the blanks around it
jsonValue(t) ==
  IF t = <<"n", "u", "l", "l">> THEN JNull
  ELSE IF t = <<"{", "}">> THEN JObject
  ELSE IF IsJsonInt(t) THEN JNumber(JsonIntValue(t))
  ELSE IF Len(t) >= 2 /\ t[1] = "[" /\ t[Len(t)] = "]"
    THEN (IF trim(SubSeq(t, 2, Len(t) - 1)) = <<>> THEN JArray(<<>>)
          ELSE jsonItems(splitTrim(SubSeq(t, 2, Len(t) - 1))))
  ELSE JThrow

\* JSON.parse on the model's grammar; JThrow stands for the SyntaxError
JSONparse(s) == jsonValue(trim(s))

(***************************************************************************)
(* Array primitives of the JavaScript runtime.                             *)
(***************************************************************************)
Min(a, b) == IF a < b THEN a ELSE b

Max(a, b) == IF a > b THEN a ELSE b

Range(f) == {f[i] : i \in DOMAIN f}

\* Array.prototype.slice(0, end): a negative end counts from the end
slice0(a, end) ==
  LET e == IF end < 0 THEN Max(Len(a) + end, 0) ELSE Min(end, Len(a))
  IN SubSeq(a, 1, e)

\* the order of the indices of keys under an ascending sort that puts the
\* later of two equal keys first
RECURSIVE unstableOrder(_, _)
unstableOrder(keys, left) ==
  IF left = {} THEN <<>>
  ELSE LET m == CHOOSE i \in left :
                  \A j \in left : keys[i] < keys[j] \/ (keys[i] = keys[j] /\ i >= j)
       IN <<m>> \o unstableOrder(keys, left \ {m})

\* the order of the indices of keys under a stable ascending sort
RECURSIVE stableOrder(_, _)
stableOrder(keys, left) ==
  IF left = {} THEN <<>>
  ELSE LET m == CHOOSE i \in left :
                  \A j \in left : keys[i] < keys[j] \/ (keys[i] = keys[j] /\ i <= j)
       IN <<m>> \o stableOrder(keys, left \ {m})

\* Array.prototype.sort((a, b) => key(a) - key(b)) (stable), keys[i] = key(a[i])
sortByKey(a, keys) ==
  LET ord == stableOrder(keys, 1..Len(a)) IN [k \in 1..Len(a) |-> a[ord[k]]]

\* the elements of a finite set of integers in ascending order
RECURSIVE ascending(_)
ascending(S) ==
  IF S = {} THEN <<>>
  ELSE LET m == CHOOSE x \in S : \A y \in S : x <= y IN <<m>> \o ascending(S \ {m})

\* Array.from({length: end - start + 1}, (_, i) => start + i): a NaN or
\* negative length gives the empty array
arrayFromRange(start, end) ==
  IF start.nan \/ end.nan \/ end.n - start.n + 1 <= 0 THEN <<>>
  ELSE [i \in 1..(end.n - start.n + 1) |-> start.n + i - 1]

(***************************************************************************)
(* AllocationEngine: the parsers.                                          *)
(***************************************************************************)
\* try { return JSON.parse(text) } catch { return fallback }
orCatch(j, fallback) == IF j.t = "throw" THEN JArray(fallback) ELSE j

\* the range branch of parsePhases: the first two parts of split('-')
rangeOf(parts) ==
  JArray(arrayFromRange(parseInt(trim(parts[1])), parseInt(trim(parts[2]))))

\* AllocationEngine.parseSlots: whatever JSON.parse returns, [] when it throws
parseSlots(slots) == orCatch(JSONparse(slots), <<>>)

\* AllocationEngine.parsePhases: "a-b" is a range, else JSON.parse, [1] when
\* it throws
parsePhases(phases) ==
  IF includesChar(phases, "-") THEN rangeOf(split(phases, "-"))
  ELSE orCatch(JSONparse(phases), <<1>>)

\* reading x.length throws a TypeError on null
lengthThrows(j) == j.t = "null"

\* x.length > 0: undefined > 0 is false for a number or an object
lengthPositive(j) == j.t = "array" /\ Len(j.v) > 0

\* availableSlots.includes(phase), for the slots of a worker that passed the
\* eligibility filter (an array)
slotsInclude(j, phase) == j.t = "array" /\ phase \in Range(j.v)

(***************************************************************************)
(* AllocationEngine: eligibility, rules, phase, confidence.                *)
(***************************************************************************)
\* requiredSkills.every(skill => workerSkills.some(ws => ws.toLowerCase() ===
\* skill.toLowerCase()))
hasAllSkills(worker, task) ==
  LET requiredSkills == splitTrim(task.RequiredSkills)
      workerSkills == splitTrim(worker.Skills)
  IN \A i \in 1..Len(requiredSkills) :
       \E k \in 1..Len(workerSkills) :
         toLowerCase(workerSkills[k]) = toLowerCase(requiredSkills[i])

\* an in-place removal of the ineligible workers from this.workers
findEligibleWorkersInPlace(ws, task) ==
  LET Keep(w) == hasAllSkills(w, task) /\ lengthPositive(parseSlots(w.AvailableSlots))
  IN [threw |-> \E i \in 1..Len(ws) : lengthThrows(parseSlots(ws[i].AvailableSlots)),
      eligible |-> SelectSeq(ws, Keep),
      workers |-> SelectSeq(ws, Keep)]

\* findEligibleWorkers: this.workers.filter(...) builds a new array and leaves
\* this.workers (field workers of the result) as it was
findEligibleWorkers(ws, task) ==
  LET Keep(w) == hasAllSkills(w, task) /\ lengthPositive(parseSlots(w.AvailableSlots))
  IN [threw |-> \E i \in 1..Len(ws) : lengthThrows(parseSlots(ws[i].AvailableSlots)),
      eligible |-> SelectSeq(ws, Keep),
      workers |-> ws]

\* workers.sort((a, b) => Number(b.QualificationLevel) - Number(a.QualificationLevel))
sortSeniorFirst(ws) == sortByKey(ws, [i \in 1..Len(ws) |-> 0 - ws[i].QualificationLevel])

\* workers.sort((a, b) => Number(a.QualificationLevel) - Number(b.QualificationLevel))
sortJuniorFirst(ws) == sortByKey(ws, [i \in 1..Len(ws) |-> ws[i].QualificationLevel])

\* getCurrentUtilization
getCurrentUtilization(workerId) == 0

\* the group of the reduce over Object.values(groups): groups in order of
\* first appearance, the first largest one wins, [] when there is no worker
largestGroup(ws) ==
  LET members(g) == SelectSeq(ws, LAMBDA w : w.WorkerGroup = g)
      first(g) == CHOOSE i \in 1..Len(ws) :
                    ws[i].WorkerGroup = g /\ \A k \in 1..(i - 1) : ws[k].WorkerGroup # g
      groups == {ws[i].WorkerGroup : i \in 1..Len(ws)}
  IN IF ws = <<>> THEN <<>>
     ELSE members(CHOOSE g \in groups :
            \A h \in groups :
              \/ Len(members(g)) > Len(members(h))
              \/ (Len(members(g)) = Len(members(h)) /\ first(g) <= first(h)))

T_senior == <<"s", "e", "n", "i", "o", "r">>
T_experienced == <<"e", "x", "p", "e", "r", "i", "e", "n", "c", "e", "d">>
T_expert == <<"e", "x", "p", "e", "r", "t">>
T_qualification == <<"q", "u", "a", "l", "i", "f", "i", "c", "a", "t", "i", "o", "n">>
T_level == <<"l", "e", "v", "e", "l">>
T_balance == <<"b", "a", "l", "a", "n", "c", "e">>
T_distribute == <<"d", "i", "s", "t", "r", "i", "b", "u", "t", "e">>
T_evenly == <<"e", "v", "e", "n", "l", "y">>
T_cost == <<"c", "o", "s", "t">>
T_budget == <<"b", "u", "d", "g", "e", "t">>
T_cheap == <<"c", "h", "e", "a", "p">>
T_high_priority == <<"h", "i", "g", "h", " ", "p", "r", "i", "o", "r", "i", "t", "y">>
T_urgent == <<"u", "r", "g", "e", "n", "t">>
T_group == <<"g", "r", "o", "u", "p">>
T_team == <<"t", "e", "a", "m">>

\* applySpecificRule: the first keyword class that the rule text matches
\* decides; sort works in place on the array it is given and returns it
applySpecificRule(rule, task, client, ws) ==
  LET ruleText == toLowerCase(rule.naturalLanguage)
      has(k) == includesText(ruleText, k)
  IN IF has(T_senior) \/ has(T_experienced) \/ has(T_expert) THEN sortSeniorFirst(ws)
     ELSE IF has(T_qualification) \/ has(T_level) THEN sortSeniorFirst(ws)
     ELSE IF has(T_balance) \/ has(T_distribute) \/ has(T_evenly)
       THEN sortByKey(ws, [i \in 1..Len(ws) |-> getCurrentUtilization(ws[i].WorkerID)])
     ELSE IF has(T_cost) \/ has(T_budget) \/ has(T_cheap) THEN sortJuniorFirst(ws)
     ELSE IF (has(T_high_priority) \/ has(T_urgent)) /\ client.PriorityLevel >= 4
       THEN sortSeniorFirst(ws)
     ELSE IF has(T_group) \/ has(T_team)
       THEN (IF Len(largestGroup(ws)) > 1 THEN largestGroup(ws) ELSE ws)
     ELSE ws

RECURSIVE applyRules(_, _, _, _)
applyRules(rs, task, client, ws) ==
  IF rs = <<>> THEN ws
  ELSE applyRules(Tail(rs), task, client, applySpecificRule(Head(rs), task, client, ws))

\* applyBusinessRules: a copy of the eligible list, every active rule in list
\* order, then slice(0, Math.min(task.MaxConcurrent, length))
capConcurrent(task, selectedWorkers) ==
  slice0(selectedWorkers, Min(task.MaxConcurrent, Len(selectedWorkers)))

applyBusinessRules(rs, task, client, eligibleWorkers) ==
  capConcurrent(task, applyRules(rs, task, client, eligibleWorkers))

\* workers.filter(w => parseSlots(w.AvailableSlots).includes(phase)).length
phaseScore(ws, phase) ==
  Cardinality({i \in 1..Len(ws) : slotsInclude(parseSlots(ws[i].AvailableSlots), phase)})

\* the reduce over Object.entries(phaseScores): integer keys come in ascending
\* order, a strictly higher score replaces best
RECURSIVE reduceBest(_, _, _)
reduceBest(keys, score, best) ==
  IF keys = <<>> THEN best
  ELSE reduceBest(Tail(keys), score,
                  IF score[Head(keys)] > score[best] THEN Head(keys) ELSE best)

\* selectOptimalPhase: threw when preferredPhases is null (.length of null) or
\* a number or an object (.forEach is not a function)
selectPhaseOf(preferredPhases, ws) ==
  IF preferredPhases.t # "array" THEN [threw |-> TRUE, phase |-> 0]
  ELSE IF Len(preferredPhases.v) = 0 THEN [threw |-> FALSE, phase |-> 1]
  ELSE [threw |-> FALSE,
        phase |-> reduceBest(ascending(Range(preferredPhases.v)),
                             [p \in Range(preferredPhases.v) |-> phaseScore(ws, p)],
                             preferredPhases.v[1])]

selectOptimalPhase(task, ws) == selectPhaseOf(parsePhases(task.PreferredPhases), ws)

\* a confidence without the final Math.min(confidence, 1.0)
calculateConfidenceUncapped(task, ws, phase) ==
  5 + (IF \A i \in 1..Len(ws) : hasAllSkills(ws[i], task) THEN 3 ELSE 0)
    + (IF \A i \in 1..Len(ws) : slotsInclude(parseSlots(ws[i].AvailableSlots), phase)
         THEN 2 ELSE 0)
    + (IF \A i \in 1..Len(ws) :
            getCurrentUtilization(ws[i].WorkerID) + task.Duration <= ws[i].MaxLoadPerPhase
         THEN 1 ELSE 0)

\* calculateConfidence, in tenths
calculateConfidence(task, ws, phase) ==
  LET skillCoverage == \A i \in 1..Len(ws) : hasAllSkills(ws[i], task)
      phaseAvailability ==
        \A i \in 1..Len(ws) : slotsInclude(parseSlots(ws[i].AvailableSlots), phase)
      notOverloaded ==
        \A i \in 1..Len(ws) :
          getCurrentUtilization(ws[i].WorkerID) + task.Duration <= ws[i].MaxLoadPerPhase
  IN Min(5 + (IF skillCoverage THEN 3 ELSE 0) + (IF phaseAvailability THEN 2 ELSE 0)
           + (IF notOverloaded THEN 1 ELSE 0), 10)

(***************************************************************************)
(* State.  clients, workers, tasks and priorities are the arrays given to  *)
(* the AllocationEngine constructor (the engine keeps the same arrays);    *)
(* ruleList is the caller's rule array and rules is this.rules, its active *)
(* rules; given is what the caller passed, as it was at construction.      *)
(* The other variables are the locals of the executeAllocation call in     *)
(* progress; summaries holds the outcome of every call that has ended,     *)
(* validations what every validateData call has returned, and returned the *)
(* last call of one of the engine's private methods on arguments of its    *)
(* own, with what it returned.                                             *)
(***************************************************************************)
VARIABLES clients, workers, tasks, ruleList, rules, priorities, given,
          pc, taskQueue, pos, allocations, warnings, workerUtilization,
          phaseDistribution, priorityDistribution, summaries, validations,
          returned,
          uploadedFiles, selectedFiles, uploadCalls,
          apiKey, dataSheets, activeSheet, pending,
          now, rateLimiter, callers, windowOpened, windowPassed,
          request

inputVars == <<clients, workers, tasks, ruleList, rules, priorities, given>>

runVars == <<pc, taskQueue, pos, allocations, warnings, workerUtilization,
             phaseDistribution, priorityDistribution, summaries>>

\* the FileUpload component: its uploadedFiles prop, its selectedFiles state
\* and the calls of onFileUpload it has made
uploadVars == <<uploadedFiles, selectedFiles, uploadCalls>>

\* the page: NEXT_PUBLIC_AI_API_KEY, the dataSheets and activeSheet state and
\* the validation that is awaited
pageVars == <<apiKey, dataSheets, activeSheet, pending>>

\* the rate limiter of a GeminiProvider, the clock, the callers of
\* waitForRateLimit, and the window the passed calls are counted in
limiterVars == <<now, rateLimiter, callers, windowOpened, windowPassed>>

vars == <<inputVars, runVars, validations, returned, uploadVars, pageVars,
          limiterVars, request>>

\* no call of a single operation has been recorded
NoCall == [op |-> "none"]

\* the entity kinds, in the order of the uploadTypes array
UploadTypes == <<"clients", "workers", "tasks">>

\* no FileUpload component is mounted
NoUpload ==
  /\ uploadedFiles = [type \in Range(UploadTypes) |-> FALSE]
  /\ selectedFiles = [type \in Range(UploadTypes) |-> <<>>]
  /\ uploadCalls = <<>>

\* no page is mounted
NoPage ==
  /\ apiKey = FALSE
  /\ dataSheets = <<>>
  /\ activeSheet = 0
  /\ pending = <<>>

\* no GeminiProvider is built
NoLimiter ==
  /\ now = 0
  /\ rateLimiter = [requests |-> 0, resetTime |-> 0]
  /\ callers = <<>>
  /\ windowOpened = 0
  /\ windowPassed = 0

\* no call of makeGeminiRequest is made
NoRequest == request = [pc |-> "none"]

(***************************************************************************)
(* AllocationEngine: the reasoning text of a result.                       *)
(***************************************************************************)
X_assigned ==
  <<"A", "s", "s", "i", "g", "n", "e", "d", " ">>

X_with_skills ==
  <<" ", "w", "o", "r", "k", "e", "r", "(", "s", ")", " ", "w", "i", "t",
    "h", " ", "r", "e", "q", "u", "i", "r", "e", "d", " ", "s", "k", "i",
    "l", "l", "s", ":", " ">>

X_high_priority ==
  <<"H", "i", "g", "h", " ", "p", "r", "i", "o", "r", "i", "t", "y", " ",
    "c", "l", "i", "e", "n", "t", " ", "(", "L", "e", "v", "e", "l", " ">>

X_assigned_senior ==
  <<")", " ", "-", " ", "a", "s", "s", "i", "g", "n", "e", "d", " ", "s",
    "e", "n", "i", "o", "r", " ", "w", "o", "r", "k", "e", "r", "s">>

X_team ==
  <<"T", "e", "a", "m", " ", "a", "l", "l", "o", "c", "a", "t", "i", "o",
    "n", " ", "f", "o", "r", " ", "b", "e", "t", "t", "e", "r", " ", "c",
    "o", "l", "l", "a", "b", "o", "r", "a", "t", "i", "o", "n">>

X_senior ==
  <<"S", "e", "n", "i", "o", "r", " ", "w", "o", "r", "k", "e", "r", "s",
    " ", "s", "e", "l", "e", "c", "t", "e", "d", " ", "f", "o", "r", " ",
    "c", "o", "m", "p", "l", "e", "x", " ", "t", "a", "s", "k">>

X_junior ==
  <<"J", "u", "n", "i", "o", "r", " ", "w", "o", "r", "k", "e", "r", "s",
    " ", "s", "e", "l", "e", "c", "t", "e", "d", " ", "f", "o", "r", " ",
    "c", "o", "s", "t", " ", "o", "p", "t", "i", "m", "i", "z", "a", "t",
    "i", "o", "n">>

X_scheduled ==
  <<"S", "c", "h", "e", "d", "u", "l", "e", "d", " ", "f", "o", "r", " ",
    "P", "h", "a", "s", "e", " ">>

X_based ==
  <<" ", "b", "a", "s", "e", "d", " ", "o", "n", " ", "a", "v", "a", "i",
    "l", "a", "b", "i", "l", "i", "t", "y", " ", "a", "n", "d", " ", "p",
    "r", "e", "f", "e", "r", "e", "n", "c", "e", "s">>

\* the decimal text of a natural number
RECURSIVE naturalText(_)
naturalText(n) ==
  IF n < 10 THEN <<Digits[n + 1]>> ELSE naturalText(n \div 10) \o <<Digits[(n % 10) + 1]>>

\* the text a template literal gives an integer
numberText(n) == IF n < 0 THEN <<"-">> \o naturalText(0 - n) ELSE naturalText(n)

\* reasons.join('. ')
RECURSIVE joinReasons(_)
joinReasons(reasons) ==
  IF Len(reasons) = 0 THEN <<>>
  ELSE IF Len(reasons) = 1 THEN reasons[1]
  ELSE reasons[1] \o <<".", " ">> \o joinReasons(Tail(reasons))

\* the sum of the QualificationLevels of the workers
RECURSIVE qualificationSum(_)
qualificationSum(ws) ==
  IF ws = <<>> THEN 0 ELSE Head(ws).QualificationLevel + qualificationSum(Tail(ws))

\* the reasons pushed on the average qualification: sum / length >= 8, <= 5
qualificationReasons(total, count) ==
  IF total >= 8 * count THEN <<X_senior>>
  ELSE IF total <= 5 * count THEN <<X_junior>>
  ELSE <<>>

\* generateAllocationReasoning, called with at least one worker
generateAllocationReasoning(task, client, ws, phase) ==
  joinReasons(
    <<X_assigned \o numberText(Len(ws)) \o X_with_skills \o task.RequiredSkills>>
    \o (IF client.PriorityLevel >= 4
          THEN <<X_high_priority \o numberText(client.PriorityLevel) \o X_assigned_senior>>
          ELSE <<>>)
    \o (IF Len(ws) > 1 THEN <<X_team>> ELSE <<>>)
    \o qualificationReasons(qualificationSum(ws), Len(ws))
    \o <<X_scheduled \o numberText(phase) \o X_based>>)
  \o <<".">>

\* wasRuleExecuted: the first word of the rule text occurs in the reasoning of
\* a result, or 'senior', 'balance' or 'cost' occurs in both
reasoningNames(reasoning, ruleText) ==
  \/ includesText(reasoning, split(ruleText, " ")[1])
  \/ includesText(reasoning, T_senior) /\ includesText(ruleText, T_senior)
  \/ includesText(reasoning, T_balance) /\ includesText(ruleText, T_balance)
  \/ includesText(reasoning, T_cost) /\ includesText(ruleText, T_cost)

wasRuleExecuted(rule, results) ==
  \E a \in 1..Len(results) :
    reasoningNames(toLowerCase(results[a].reasoning), toLowerCase(rule.naturalLanguage))

\* this.rules.forEach(rule => wasRuleExecuted(...) && executedRules.push(rule.name))
RECURSIVE executedRulesOf(_, _)
executedRulesOf(rs, results) ==
  IF rs = <<>> THEN <<>>
  ELSE (IF wasRuleExecuted(Head(rs), results) THEN <<Head(rs).name>> ELSE <<>>)
       \o executedRulesOf(Tail(rs), results)

(***************************************************************************)
(* AllocationEngine: the queue and one task.                               *)
(***************************************************************************)
T_speed == <<"s", "p", "e", "e", "d">>

\* getPriorityWeight, in hundredths: the first priority whose name contains
\* "speed", 0.5 when there is none
getPriorityWeight(ps) ==
  LET hit == {i \in 1..Len(ps) : includesText(toLowerCase(ps[i].name), T_speed)}
  IN IF hit = {} THEN 50 ELSE ps[CHOOSE i \in hit : \A k \in hit : i <= k].weight

\* this.tasks.find(t => t.TaskID === taskId): the indices of the matches
findTask(ts, taskId) == {i \in 1..Len(ts) : ts[i].TaskID = taskId}

\* the entries that one client pushes, in the order of its requested IDs
RECURSIVE requestedEntries(_, _, _)
requestedEntries(ids, client, ts) ==
  IF ids = <<>> THEN <<>>
  ELSE LET hit == findTask(ts, Head(ids))
           rest == requestedEntries(Tail(ids), client, ts)
       IN IF hit = {} THEN rest
          ELSE <<[task |-> ts[CHOOSE i \in hit : \A k \in hit : i <= k],
                  client |-> client,
                  priority |-> client.PriorityLevel]>> \o rest

RECURSIVE enqueueAll(_, _)
enqueueAll(cs, ts) ==
  IF cs = <<>> THEN <<>>
  ELSE requestedEntries(splitTrim(Head(cs).RequestedTaskIDs), Head(cs), ts)
         \o enqueueAll(Tail(cs), ts)

\* a comparator with its operands exchanged: ascending products
sortQueueAscending(q, priorityWeight) ==
  sortByKey(q, [i \in 1..Len(q) |-> q[i].priority * priorityWeight])

\* buildTaskQueue: sort((a, b) => b.priority * weight - a.priority * weight)
sortQueue(q, priorityWeight) ==
  sortByKey(q, [i \in 1..Len(q) |-> 0 - q[i].priority * priorityWeight])

buildTaskQueue(cs, ts, ps) == sortQueue(enqueueAll(cs, ts), getPriorityWeight(ps))

NoResult ==
  [taskId |-> <<>>, taskName |-> "", assignedWorkerIds |-> <<>>,
   assignedWorkerNames |-> <<>>, clientId |-> "", clientName |-> "",
   phase |-> 0, priority |-> 0, reasoning |-> <<>>, confidence |-> 0]

\* allocateTask: kind is "result", "null" (the task stays unassigned) or
\* "throw" (a TypeError escapes); workers is this.workers afterwards
\* the lines of allocateTask after the phase is chosen
allocatePhase(taskInfo, found, selectedWorkers, selected) ==
  IF selected.threw THEN [kind |-> "throw", result |-> NoResult, workers |-> found.workers]
  ELSE IF Len(selectedWorkers) = 0
    THEN [kind |-> "null", result |-> NoResult, workers |-> found.workers]
  ELSE [kind |-> "result",
        result |->
          [taskId |-> taskInfo.task.TaskID,
           taskName |-> taskInfo.task.TaskName,
           assignedWorkerIds |->
             [i \in 1..Len(selectedWorkers) |-> selectedWorkers[i].WorkerID],
           assignedWorkerNames |->
             [i \in 1..Len(selectedWorkers) |-> selectedWorkers[i].WorkerName],
           clientId |-> taskInfo.client.ClientID,
           clientName |-> taskInfo.client.ClientName,
           phase |-> selected.phase,
           priority |-> taskInfo.priority,
           reasoning |->
             generateAllocationReasoning(taskInfo.task, taskInfo.client,
                                         selectedWorkers, selected.phase),
           confidence |->
             calculateConfidence(taskInfo.task, selectedWorkers, selected.phase)],
        workers |-> found.workers]

\* the lines of allocateTask after the workers are selected
allocateSelected(taskInfo, found, selectedWorkers) ==
  allocatePhase(taskInfo, found, selectedWorkers,
                selectOptimalPhase(taskInfo.task, selectedWorkers))

\* the lines of allocateTask after the eligible workers are found
allocateFound(rs, taskInfo, found) ==
  IF found.threw THEN [kind |-> "throw", result |-> NoResult, workers |-> found.workers]
  ELSE IF Len(found.eligible) = 0
    THEN [kind |-> "null", result |-> NoResult, workers |-> found.workers]
  ELSE allocateSelected(taskInfo, found,
         applyBusinessRules(rs, taskInfo.task, taskInfo.client, found.eligible))

allocateTask(ws, rs, taskInfo) ==
  allocateFound(rs, taskInfo, findEligibleWorkers(ws, taskInfo.task))

\* record[key] = (record[key] || 0) + 1
countUp(record, key) ==
  IF key \in DOMAIN record THEN [record EXCEPT ![key] = @ + 1] ELSE record @@ (key :> 1)

\* allocation.assignedWorkerIds.forEach(id => workerUtilization[id] += Duration)
RECURSIVE addUtilization(_, _, _)
addUtilization(util, ids, duration) ==
  IF ids = <<>> THEN util
  ELSE addUtilization([util EXCEPT ![Head(ids)] = @ + duration], Tail(ids), duration)

Rejected ==
  [rejected |-> TRUE, totalTasks |-> 0, assignedTasks |-> 0, unassignedTasks |-> 0,
   workerUtilization |-> <<>>, phaseDistribution |-> <<>>,
   priorityDistribution |-> <<>>, executedRules |-> <<>>, warnings |-> <<>>,
   allocations |-> <<>>]

(***************************************************************************)
(* executeAllocation, one step per await.                                  *)
(***************************************************************************)
\* the call starts: fresh accumulators, the utilization of every worker set
\* to 0, the queue built
ExecuteAllocationStart ==
  /\ pc \in {"idle", "done", "rejected"}
  /\ Len(summaries) < MaxRuns
  /\ pc' = "running"
  /\ allocations' = <<>>
  /\ warnings' = <<>>
  /\ workerUtilization' = [id \in {workers[i].WorkerID : i \in 1..Len(workers)} |-> 0]
  /\ phaseDistribution' = <<>>
  /\ priorityDistribution' = <<>>
  /\ taskQueue' = buildTaskQueue(clients, tasks, priorities)
  /\ pos' = 1
  /\ UNCHANGED <<uploadVars, pageVars, limiterVars, request>>
  /\ UNCHANGED <<inputVars, summaries, validations, returned>>

\* one turn of the loop: await this.allocateTask(taskInfo) and the bookkeeping
AllocateTaskStep ==
  /\ pc = "running"
  /\ pos <= Len(taskQueue)
  /\ \E taskInfo \in {taskQueue[pos]} :
     \E r \in {allocateTask(workers, rules, taskInfo)} :
        /\ workers' = r.workers
        /\ IF r.kind = "throw"
             THEN /\ pc' = "rejected"
                  /\ summaries' = Append(summaries, Rejected)
                  /\ UNCHANGED <<pos, allocations, warnings, workerUtilization,
                                 phaseDistribution, priorityDistribution>>
           ELSE IF r.kind = "result"
             THEN /\ allocations' = Append(allocations, r.result)
                  /\ workerUtilization' =
                       addUtilization(workerUtilization, r.result.assignedWorkerIds,
                                      taskInfo.task.Duration)
                  /\ phaseDistribution' = countUp(phaseDistribution, r.result.phase)
                  /\ priorityDistribution' =
                       countUp(priorityDistribution, r.result.priority)
                  /\ pos' = pos + 1
                  /\ UNCHANGED <<pc, warnings, summaries>>
           ELSE /\ warnings' = Append(warnings, taskInfo.task.TaskName)
                /\ pos' = pos + 1
                /\ UNCHANGED <<pc, allocations, workerUtilization, phaseDistribution,
                               priorityDistribution, summaries>>
  /\ UNCHANGED <<uploadVars, pageVars, limiterVars, request>>
  /\ UNCHANGED <<clients, tasks, ruleList, rules, priorities, given, taskQueue,
                 validations, returned>>

\* the loop is over: the summary is returned
ExecuteAllocationFinish ==
  /\ pc = "running"
  /\ pos > Len(taskQueue)
  /\ pc' = "done"
  /\ summaries' = Append(summaries,
       [rejected |-> FALSE,
        totalTasks |-> Len(taskQueue),
        assignedTasks |-> Len(allocations),
        unassignedTasks |-> Len(taskQueue) - Len(allocations),
        workerUtilization |-> workerUtilization,
        phaseDistribution |-> phaseDistribution,
        priorityDistribution |-> priorityDistribution,
        executedRules |-> executedRulesOf(rules, allocations),
        warnings |-> warnings,
        allocations |-> allocations])
  /\ UNCHANGED <<uploadVars, pageVars, limiterVars, request>>
  /\ UNCHANGED <<inputVars, taskQueue, pos, allocations, warnings, workerUtilization,
                 phaseDistribution, priorityDistribution, validations, returned>>

NextAlloc == ExecuteAllocationStart \/ AllocateTaskStep \/ ExecuteAllocationFinish

(***************************************************************************)
(* GeminiProvider: the parsers of validateData.                            *)
(***************************************************************************)
\* GeminiProvider.parseSlots: whatever JSON.parse returns, [] when it throws
G_parseSlots(slots) == orCatch(JSONparse(slots), <<>>)

\* GeminiProvider.parsePhases: as the engine's, but [] when JSON.parse throws
G_parsePhases(phases) ==
  IF includesChar(phases, "-") THEN rangeOf(split(phases, "-"))
  ELSE orCatch(JSONparse(phases), <<>>)

\* parseClient: RequestedTaskIDs.split(',').map(id => id.trim())
parseClient(client) == [client EXCEPT !.RequestedTaskIDs = splitTrim(@)]

\* parseWorker
parseWorker(worker) ==
  [worker EXCEPT !.Skills = splitTrim(@), !.AvailableSlots = G_parseSlots(@)]

\* parseTask
parseTask(task) ==
  [task EXCEPT !.RequiredSkills = splitTrim(@), !.PreferredPhases = G_parsePhases(@)]

(***************************************************************************)
(* GeminiProvider: the checks.  A finding keeps the fields of a            *)
(* ValidationError; id is the constant head of the id template, key the    *)
(* values put into it and message the values put into the message.         *)
(***************************************************************************)
Finding(id, key, row, column, message, severity, validationType) ==
  [id |-> id, key |-> key, row |-> row, column |-> column, message |-> message,
   severity |-> severity, validationType |-> validationType]

\* the concatenation of a sequence of sequences
RECURSIVE flatten(_)
flatten(ss) == IF ss = <<>> THEN <<>> ELSE Head(ss) \o flatten(Tail(ss))

requiredClientColumns ==
  <<"ClientID", "ClientName", "PriorityLevel", "RequestedTaskIDs", "GroupTag",
    "AttributesJSON">>

\* declared by validateRequiredColumns and not read by it
requiredWorkerColumns ==
  <<"WorkerID", "WorkerName", "Skills", "AvailableSlots", "MaxLoadPerPhase",
    "WorkerGroup", "QualificationLevel">>

requiredTaskColumns ==
  <<"TaskID", "TaskName", "Category", "Duration", "RequiredSkills",
    "PreferredPhases", "MaxConcurrent">>

\* validateRequiredColumns: only the clients are looked at
validateRequiredColumns(cs, ws, ts) ==
  IF Len(cs) = 0 THEN <<>>
  ELSE flatten([k \in 1..Len(requiredClientColumns) |->
         IF requiredClientColumns[k] \in DOMAIN cs[1] THEN <<>>
         ELSE <<Finding("missing-client", <<requiredClientColumns[k]>>, 0 - 1,
                        requiredClientColumns[k], <<requiredClientColumns[k]>>,
                        "error", "missing_column")>>])

\* validateDuplicateIds: a Set of the ClientIDs seen so far; workers and tasks
\* are not looked at
validateDuplicateIds(cs, ws, ts) ==
  flatten([i \in 1..Len(cs) |->
    IF \E k \in 1..(i - 1) : cs[k].ClientID = cs[i].ClientID
      THEN <<Finding("duplicate-client", <<cs[i].ClientID>>, i - 1, "ClientID",
                     <<cs[i].ClientID>>, "error", "duplicate_id")>>
      ELSE <<>>])

\* validateMalformedLists: JSON.parse(worker.AvailableSlots) throws
validateMalformedLists(ws, ts) ==
  flatten([i \in 1..Len(ws) |->
    IF JSONparse(ws[i].AvailableSlots).t = "throw"
      THEN <<Finding("malformed-slots", <<ws[i].WorkerID>>, i - 1, "AvailableSlots",
                     <<ws[i].AvailableSlots>>, "error", "malformed_list")>>
      ELSE <<>>])

\* validateOutOfRange: the clients first, then the tasks
validateOutOfRange(cs, ts) ==
  flatten([i \in 1..Len(cs) |->
    IF cs[i].PriorityLevel < 1 \/ cs[i].PriorityLevel > 5
      THEN <<Finding("invalid-priority", <<cs[i].ClientID>>, i - 1, "PriorityLevel",
                     <<cs[i].PriorityLevel>>, "error", "out_of_range")>>
      ELSE <<>>])
  \o
  flatten([i \in 1..Len(ts) |->
    IF ts[i].Duration < 1
      THEN <<Finding("invalid-duration", <<ts[i].TaskID>>, i - 1, "Duration",
                     <<ts[i].Duration>>, "error", "out_of_range")>>
      ELSE <<>>])

\* validateBrokenJson
validateBrokenJson(cs) ==
  flatten([i \in 1..Len(cs) |->
    IF JSONparse(cs[i].AttributesJSON).t = "throw"
      THEN <<Finding("broken-json", <<cs[i].ClientID>>, i - 1, "AttributesJSON",
                     <<>>, "error", "broken_json")>>
      ELSE <<>>])

\* the findings of one parsed client in validateUnknownReferences
unknownTokens(client, index, taskIds) ==
  flatten([k \in 1..Len(client.RequestedTaskIDs) |->
    IF client.RequestedTaskIDs[k] \in taskIds THEN <<>>
    ELSE <<Finding("unknown-task", <<client.ClientID, client.RequestedTaskIDs[k]>>,
                   index, "RequestedTaskIDs", <<client.RequestedTaskIDs[k]>>,
                   "error", "unknown_reference")>>])

\* validateUnknownReferences, on the parsed clients and tasks
validateUnknownReferences(pcs, pts) ==
  flatten([i \in 1..Len(pcs) |->
    unknownTokens(pcs[i], i - 1, {pts[k].TaskID : k \in 1..Len(pts)})])

\* validateOverloadedWorkers, on the parsed workers (whose slots are arrays)
validateOverloadedWorkers(pws) ==
  flatten([i \in 1..Len(pws) |->
    IF pws[i].AvailableSlots.t = "array"
       /\ Len(pws[i].AvailableSlots.v) < pws[i].MaxLoadPerPhase
      THEN <<Finding("overloaded", <<pws[i].WorkerID>>, i - 1, "MaxLoadPerPhase",
                     <<Len(pws[i].AvailableSlots.v), pws[i].MaxLoadPerPhase>>,
                     "warning", "overloaded_worker")>>
      ELSE <<>>])

\* the sum of f[i] over the indices i of S
RECURSIVE sumOver(_, _)
sumOver(f, S) ==
  IF S = {} THEN 0
  ELSE LET i == CHOOSE x \in S : TRUE IN f[i] + sumOver(f, S \ {i})

\* how many times phase occurs in a list of phases
occurrences(list, phase) == Cardinality({k \in 1..Len(list) : list[k] = phase})

\* phaseCapacity[phase] || 0
phaseCapacity(pws, phase) ==
  sumOver([i \in 1..Len(pws) |->
             occurrences(pws[i].AvailableSlots.v, phase) * pws[i].MaxLoadPerPhase],
          1..Len(pws))

\* phaseDemand[phase]
phaseDemand(pts, phase) ==
  sumOver([i \in 1..Len(pts) |->
             occurrences(pts[i].PreferredPhases.v, phase) * pts[i].Duration],
          1..Len(pts))

saturationOf(pws, pts, phases) ==
  flatten([k \in 1..Len(phases) |->
    IF phaseDemand(pts, phases[k]) > phaseCapacity(pws, phases[k])
      THEN <<Finding("phase-saturation", <<phases[k]>>, 0 - 1, "Phase",
                     <<phases[k], phaseDemand(pts, phases[k]),
                       phaseCapacity(pws, phases[k])>>,
                     "error", "phase_saturation")>>
      ELSE <<>>])

\* validatePhaseSaturation: Object.keys(phaseDemand) gives the phases in
\* ascending order
validatePhaseSaturation(pws, pts) ==
  saturationOf(pws, pts,
    ascending(UNION {Range(pts[i].PreferredPhases.v) : i \in 1..Len(pts)}))

\* the findings of one parsed task in validateSkillCoverage
uncoveredSkills(task, index, availableSkills) ==
  flatten([k \in 1..Len(task.RequiredSkills) |->
    IF task.RequiredSkills[k] \in availableSkills THEN <<>>
    ELSE <<Finding("missing-skill", <<task.TaskID, task.RequiredSkills[k]>>, index,
                   "RequiredSkills", <<task.RequiredSkills[k]>>,
                   "error", "skill_coverage")>>])

\* validateSkillCoverage: new Set(workers.flatMap(w => w.Skills)).has(skill)
validateSkillCoverage(pws, pts) ==
  flatten([i \in 1..Len(pts) |->
    uncoveredSkills(pts[i], i - 1, UNION {Range(pws[k].Skills) : k \in 1..Len(pws)})])

\* workers.filter(w => RequiredSkills.every(s => w.Skills.includes(s))).length
qualifiedWorkers(pws, task) ==
  Cardinality({i \in 1..Len(pws) : Range(task.RequiredSkills) \subseteq Range(pws[i].Skills)})

\* validateMaxConcurrency
validateMaxConcurrency(pws, pts) ==
  flatten([i \in 1..Len(pts) |->
    IF pts[i].MaxConcurrent > qualifiedWorkers(pws, pts[i])
      THEN <<Finding("max-concurrency", <<pts[i].TaskID>>, i - 1, "MaxConcurrent",
                     <<pts[i].MaxConcurrent, qualifiedWorkers(pws, pts[i])>>,
                     "warning", "max_concurrency")>>
      ELSE <<>>])

(***************************************************************************)
(* GeminiProvider.validateData.                                            *)
(***************************************************************************)
\* the lists of findings of the ten checks that run, in the order of the code
checkNames ==
  <<"missing_required_columns", "duplicate_ids", "malformed_lists",
    "out_of_range_values", "broken_json", "unknown_references",
    "overloaded_workers", "phase_slot_saturation", "skill_coverage",
    "max_concurrency">>

checkFindings(cs, ws, ts, pcs, pws, pts) ==
  <<validateRequiredColumns(cs, ws, ts),
    validateDuplicateIds(cs, ws, ts),
    validateMalformedLists(ws, ts),
    validateOutOfRange(cs, ts),
    validateBrokenJson(cs),
    validateUnknownReferences(pcs, pts),
    validateOverloadedWorkers(pws),
    validatePhaseSaturation(pws, pts),
    validateSkillCoverage(pws, pts),
    validateMaxConcurrency(pws, pts)>>

\* the two rule checks are pushed to passedValidations after unknown_references
passedOf(found) ==
  SelectSeq(SubSeq(checkNames, 1, 6),
            LAMBDA n : \E k \in 1..6 : checkNames[k] = n /\ found[k] = <<>>)
  \o <<"circular_corun_groups", "conflicting_rules">>
  \o SelectSeq(SubSeq(checkNames, 7, 10),
               LAMBDA n : \E k \in 7..10 : checkNames[k] = n /\ found[k] = <<>>)

failedOf(found) ==
  SelectSeq(checkNames, LAMBDA n : \E k \in 1..10 : checkNames[k] = n /\ found[k] # <<>>)

countSeverity(errors, severity) ==
  Cardinality({k \in 1..Len(errors) : errors[k].severity = severity})

summaryOf(errors, passed, failed) ==
  [totalErrors |-> countSeverity(errors, "error"),
   totalWarnings |-> countSeverity(errors, "warning"),
   totalInfo |-> countSeverity(errors, "info"),
   passedValidations |-> passed,
   failedValidations |-> failed,
   validationsPassed |-> countSeverity(errors, "error") = 0,
   errors |-> errors]

\* the summary of the catch block
systemError ==
  [totalErrors |-> 1, totalWarnings |-> 0, totalInfo |-> 0,
   passedValidations |-> <<>>, failedValidations |-> <<"system_error">>,
   validationsPassed |-> FALSE,
   errors |-> <<[id |-> "system_error", key |-> <<>>, row |-> 0 - 1,
                 column |-> "system", message |-> <<>>, severity |-> "error",
                 validationType |-> "none"]>>]

\* a TypeError inside the try block: AvailableSlots.length of null in
\* validateOverloadedWorkers, AvailableSlots.forEach or PreferredPhases.forEach
\* of a value that is no array in validatePhaseSaturation
validationThrows(pws, pts) ==
  \/ \E i \in 1..Len(pws) : pws[i].AvailableSlots.t # "array"
  \/ \E i \in 1..Len(pts) : pts[i].PreferredPhases.t # "array"

summaryFound(found) == summaryOf(flatten(found), passedOf(found), failedOf(found))

validateParsed(cs, ws, ts, pcs, pws, pts) ==
  IF validationThrows(pws, pts) THEN systemError
  ELSE summaryFound(checkFindings(cs, ws, ts, pcs, pws, pts))

validateData(cs, ws, ts) ==
  validateParsed(cs, ws, ts,
                 [i \in 1..Len(cs) |-> parseClient(cs[i])],
                 [i \in 1..Len(ws) |-> parseWorker(ws[i])],
                 [i \in 1..Len(ts) |-> parseTask(ts[i])])

\* a call of a validateData that walks the tasks with tasks.reverse()
ValidateDataReversing ==
  /\ Len(validations) < MaxRuns
  /\ validations' = Append(validations, validateData(clients, workers, tasks))
  /\ tasks' = [i \in 1..Len(tasks) |-> tasks[Len(tasks) + 1 - i]]
  /\ UNCHANGED <<uploadVars, pageVars, limiterVars, request>>
  /\ UNCHANGED <<clients, workers, ruleList, rules, priorities, given, runVars,
                 returned>>

\* a call of validateData on the loaded data
ValidateData ==
  /\ Len(validations) < MaxRuns
  /\ validations' = Append(validations, validateData(clients, workers, tasks))
  /\ UNCHANGED <<uploadVars, pageVars, limiterVars, request>>
  /\ UNCHANGED <<inputVars, runVars, returned>>

\* HuggingFaceProvider.basicValidation: the counts are taken from the local
\* errors list, which stays empty, and the returned errors hold one entry
basicValidation(cs, ws, ts) ==
  [totalErrors |-> countSeverity(<<>>, "error"),
   totalWarnings |-> countSeverity(<<>>, "warning"),
   totalInfo |-> countSeverity(<<>>, "info"),
   passedValidations |-> <<>>, failedValidations |-> <<"system_error">>,
   validationsPassed |-> FALSE,
   errors |-> systemError.errors]

\* a call of HuggingFaceProvider.validateData on the loaded data: the request
\* succeeds or fails, and basicValidation is returned either way
HuggingFaceValidateData ==
  /\ returned = NoCall
  /\ returned' = [op |-> "HuggingFaceProvider.validateData",
                  result |-> basicValidation(clients, workers, tasks)]
  /\ UNCHANGED <<uploadVars, pageVars, limiterVars, request>>
  /\ UNCHANGED <<inputVars, runVars, validations>>

NextValid == ValidateData \/ HuggingFaceValidateData

(***************************************************************************)
(* The data of the model: texts, records and the lists the engines are     *)
(* given.                                                                  *)
(***************************************************************************)
S_js == <<"j", "s">>
S_JS_py == <<"J", "S", ",", " ", "p", "y">>
S_py == <<"p", "y">>
S_go == <<"g", "o">>

A_1 == <<"[", "1", "]">>
A_2 == <<"[", "2", "]">>
A_1_2 == <<"[", "1", ",", "2", "]">>
A_2_1 == <<"[", "2", ",", "1", "]">>
A_null == <<"n", "u", "l", "l">>
A_number == <<"5">>
A_object == <<"{", "}">>
A_text == <<"x">>
A_range == <<"2", "-", "3">>

ID_T1 == <<"T", "1">>
ID_T2 == <<"T", "2">>

Worker(id, skills, slots, load, group, level) ==
  [WorkerID |-> id, WorkerName |-> id, Skills |-> skills, AvailableSlots |-> slots,
   MaxLoadPerPhase |-> load, WorkerGroup |-> group, QualificationLevel |-> level]

Task(id, name, skills, phases, duration, maxConcurrent) ==
  [TaskID |-> id, TaskName |-> name, Category |-> "ETL", Duration |-> duration,
   RequiredSkills |-> skills, PreferredPhases |-> phases,
   MaxConcurrent |-> maxConcurrent]

Client(id, level, requested) ==
  [ClientID |-> id, ClientName |-> id, PriorityLevel |-> level,
   RequestedTaskIDs |-> requested, GroupTag |-> "G", AttributesJSON |-> A_object]

\* a record of a sheet that has no such column
WithoutColumn(record, column) == [c \in DOMAIN record \ {column} |-> record[c]]

Rule(name, text, active) == [name |-> name, naturalLanguage |-> text, isActive |-> active]

Priority(name, weight) == [name |-> name, weight |-> weight]

\* the workers an allocation run is given: well formed ones, one whose slots
\* are the JSON null, one whose slots are no JSON
AllocWorkerPool ==
  { Worker("W1", S_js, A_1, 1, "A", 3),
    Worker("W2", S_JS_py, A_2, 2, "B", 8),
    Worker("W3", S_js, A_1_2, 1, "B", 8),
    Worker("W4", S_js, A_null, 1, "A", 5),
    Worker("W5", S_py, A_text, 1, "A", 5) }

SeqsUpTo(S, n) == UNION {[1..k -> S] : k \in 0..n}

\* the lists of at most n different elements of S
DistinctUpTo(S, n) ==
  {q \in SeqsUpTo(S, n) : \A i, k \in 1..Len(q) : q[i] = q[k] => i = k}

T1_two == Task(ID_T1, "t1", S_js, A_1_2, 1, 2)
T1_minus == Task(ID_T1, "t1", S_js, A_2_1, 1, 0 - 1)
T1_number == Task(ID_T1, "t1", S_js, A_number, 1, 1)
T1_long == Task(ID_T1, "t1", S_js, A_1_2, 2, 2)
T2_range == Task(ID_T2, "t2", S_py, A_range, 2, 1)
T2_text == Task(ID_T2, "t2", S_js, A_text, 1, 0)
T2_null == Task(ID_T2, "t2", S_go, A_null, 1, 1)

AllocTaskLists ==
  { <<>>, <<T1_two>>, <<T1_two, T2_range>>, <<T1_minus, T2_text>>,
    <<T2_range, T1_number>>, <<T1_minus, T2_null>>, <<T1_long, T2_range>> }

R_T1_T2 == <<"T", "1", ",", "T", "2">>
R_T2_T1 == <<"T", "2", ",", " ", "T", "1">>
R_T9 == <<"T", "9">>

AllocClientLists ==
  { <<Client("C1", 5, R_T1_T2)>>,
    <<Client("C1", 2, R_T2_T1), Client("C2", 4, R_T1_T2)>>,
    <<Client("C1", 3, R_T9), Client("C2", 3, ID_T1)>> }

N_senior == <<"S", "e", "n", "i", "o", "r", " ", "f", "i", "r", "s", "t">>
N_cheap == <<"c", "h", "e", "a", "p">>
N_team == <<"o", "n", "e", " ", "t", "e", "a", "m">>
N_urgent == <<"U", "r", "g", "e", "n", "t">>
N_evenly == <<"e", "v", "e", "n", "l", "y">>
N_other == <<"n", "o", "n", "e">>
N_prefer == <<"P", "r", "e", "f", "e", "r", " ", "j", "s">>

AllocRuleLists ==
  { <<>>,
    <<Rule("r1", N_senior, TRUE)>>,
    <<Rule("r1", N_cheap, TRUE), Rule("r2", N_senior, FALSE)>>,
    <<Rule("r1", N_team, TRUE), Rule("r2", N_urgent, TRUE)>>,
    <<Rule("r1", N_evenly, TRUE), Rule("r2", N_other, TRUE),
      Rule("r3", N_prefer, TRUE)>> }

N_Speed == <<"S", "p", "e", "e", "d">>
N_Cost == <<"C", "o", "s", "t">>

AllocPriorityLists ==
  { <<>>, <<Priority(N_Cost, 60), Priority(N_Speed, 40)>> }

\* new AllocationEngine(clients, workers, tasks, rules, priorities)
Constructed(cs, ws, ts, rl, ps) ==
  /\ clients = cs
  /\ workers = ws
  /\ tasks = ts
  /\ ruleList = rl
  /\ rules = SelectSeq(rl, LAMBDA r : r.isActive)
  /\ priorities = ps
  /\ given = [clients |-> cs, workers |-> ws, tasks |-> ts, rules |-> rl,
              priorities |-> ps]

NoRun ==
  /\ pc = "idle"
  /\ taskQueue = <<>>
  /\ pos = 1
  /\ allocations = <<>>
  /\ warnings = <<>>
  /\ workerUtilization = <<>>
  /\ phaseDistribution = <<>>
  /\ priorityDistribution = <<>>
  /\ summaries = <<>>

InitAlloc ==
  /\ \E cs \in AllocClientLists, ws \in DistinctUpTo(AllocWorkerPool, MaxWorkers),
        ts \in AllocTaskLists, rl \in AllocRuleLists, ps \in AllocPriorityLists :
       Constructed(cs, ws, ts, rl, ps)
  /\ NoRun
  /\ validations = <<>>
  /\ returned = NoCall
  /\ NoUpload /\ NoPage /\ NoLimiter /\ NoRequest

SpecAlloc == InitAlloc /\ [][NextAlloc]_vars

(***************************************************************************)
(* The data validateData is called on: duplicate keys, tags that differ in *)
(* case only, empty tokens, slots and phases that are no JSON or no array. *)
(***************************************************************************)
S_JS == <<"J", "S">>
S_js_comma == <<"j", "s", ",">>
R_empty == <<>>
R_T1_T9 == <<"T", "1", ",", "T", "9">>

ValidWorkerPool ==
  { Worker("W1", S_js, A_1, 1, "A", 3),
    Worker("W1", S_py, A_2, 1, "A", 5),
    Worker("W2", S_JS_py, A_1_2, 3, "B", 8),
    Worker("W3", S_js, A_null, 1, "A", 5),
    Worker("W4", S_py, A_text, 1, "B", 5),
    WithoutColumn(Worker("W5", S_js, A_1, 1, "A", 5), "WorkerGroup") }

T2_upper == Task(ID_T2, "t2", S_JS, A_1, 1, 1)
T2_go == Task(ID_T2, "t2", S_go, A_2, 3, 5)
T2_comma == Task(ID_T2, "t2", S_js_comma, A_1, 0, 1)

ValidTaskLists ==
  { <<>>, <<T1_two>>, <<T1_two, T2_range>>, <<T1_two, T1_minus>>, <<T2_go>>,
    <<T1_two, T2_upper>>, <<T2_comma>>, <<T1_number, T2_go>>,
    <<WithoutColumn(T1_two, "Category")>> }

ValidClientLists ==
  { <<>>,
    <<Client("C1", 5, R_T1_T2)>>,
    <<Client("C1", 8, R_T9), Client("C1", 2, R_T2_T1)>>,
    <<Client("C1", 3, R_empty)>>,
    <<Client("C1", 0, R_T1_T9), Client("C2", 1, R_T1_T9)>>,
    <<WithoutColumn(Client("C1", 3, R_T1_T2), "GroupTag"), Client("C2", 3, R_T1_T2)>> }

InitValid ==
  /\ \E cs \in ValidClientLists, ws \in SeqsUpTo(ValidWorkerPool, MaxWorkers),
        ts \in ValidTaskLists :
       Constructed(cs, ws, ts, <<>>, <<>>)
  /\ NoRun
  /\ validations = <<>>
  /\ returned = NoCall
  /\ NoUpload /\ NoPage /\ NoLimiter /\ NoRequest

SpecValid == InitValid /\ [][NextValid]_vars

(***************************************************************************)
(* selectOptimalPhase and applySpecificRule called once on their own, on   *)
(* the worker lists that allocateTask hands them: eligible workers, whose  *)
(* slots are non-empty arrays.                                             *)
(***************************************************************************)
MaxTeam == 3

A_3 == <<"[", "3", "]">>
A_3_2_1 == <<"[", "3", ",", "2", ",", "1", "]">>
A_3_1_2 == <<"[", "3", ",", "1", ",", "2", "]">>
A_empty == <<"[", "]">>

TeamPool ==
  { Worker("W1", S_js, A_1, 1, "A", 3),
    Worker("W2", S_JS_py, A_2, 2, "B", 8),
    Worker("W3", S_js, A_1_2, 1, "B", 8),
    Worker("W6", S_js, A_3, 1, "C", 5) }

PhaseTasks ==
  { T1_two, T1_minus, T2_range, T2_text,
    Task(ID_T1, "t1", S_js, A_3_2_1, 1, 2),
    Task(ID_T1, "t1", S_js, A_3_1_2, 1, 2),
    Task(ID_T1, "t1", S_js, A_empty, 1, 2) }

N_level == <<"b", "y", " ", "L", "e", "v", "e", "l">>

RulePool ==
  { Rule("r1", N_senior, TRUE), Rule("r1", N_level, TRUE), Rule("r1", N_evenly, TRUE),
    Rule("r1", N_cheap, TRUE), Rule("r1", N_urgent, TRUE), Rule("r1", N_team, TRUE),
    Rule("r1", N_other, TRUE) }

ClientPool == { Client("C1", 5, ID_T1), Client("C2", 3, ID_T1) }

\* this.selectOptimalPhase(task, selectedWorkers)
SelectOptimalPhase ==
  /\ returned = NoCall
  /\ \E task \in PhaseTasks, ws \in DistinctUpTo(TeamPool, MaxTeam) :
       returned' = [op |-> "selectOptimalPhase", task |-> task, workers |-> ws,
                    result |-> selectOptimalPhase(task, ws)]
  /\ UNCHANGED <<uploadVars, pageVars, limiterVars, request>>
  /\ UNCHANGED <<inputVars, runVars, validations>>

\* this.applySpecificRule(rule, task, client, selectedWorkers)
ApplySpecificRule ==
  /\ returned = NoCall
  /\ \E rule \in RulePool, task \in {T1_two}, client \in ClientPool,
        ws \in DistinctUpTo(TeamPool, MaxTeam) :
       returned' = [op |-> "applySpecificRule", rule |-> rule, client |-> client,
                    workers |-> ws,
                    result |-> applySpecificRule(rule, task, client, ws)]
  /\ UNCHANGED <<uploadVars, pageVars, limiterVars, request>>
  /\ UNCHANGED <<inputVars, runVars, validations>>

\* the records of the validation data, one at a time
ParsePool(lists) == UNION {Range(list) : list \in lists}

\* a call of parseClient, parseWorker or parseTask
ParseClient ==
  /\ returned = NoCall
  /\ \E client \in ParsePool(ValidClientLists) :
       returned' = [op |-> "parseClient", text |-> client.RequestedTaskIDs,
                    result |-> parseClient(client).RequestedTaskIDs]
  /\ UNCHANGED <<uploadVars, pageVars, limiterVars, request>>
  /\ UNCHANGED <<inputVars, runVars, validations>>

ParseWorker ==
  /\ returned = NoCall
  /\ \E worker \in ValidWorkerPool :
       returned' = [op |-> "parseWorker", text |-> worker.Skills,
                    result |-> parseWorker(worker).Skills]
  /\ UNCHANGED <<uploadVars, pageVars, limiterVars, request>>
  /\ UNCHANGED <<inputVars, runVars, validations>>

ParseTask ==
  /\ returned = NoCall
  /\ \E task \in ParsePool(ValidTaskLists) :
       returned' = [op |-> "parseTask", text |-> task.RequiredSkills,
                    result |-> parseTask(task).RequiredSkills]
  /\ UNCHANGED <<uploadVars, pageVars, limiterVars, request>>
  /\ UNCHANGED <<inputVars, runVars, validations>>

\* this.applyBusinessRules(task, client, eligibleWorkers) of an engine with two
\* active rules
ApplyBusinessRules ==
  /\ returned = NoCall
  /\ \E first \in RulePool, second \in RulePool, client \in ClientPool,
        ws \in DistinctUpTo(TeamPool, MaxTeam) :
       returned' = [op |-> "applyBusinessRules", rules |-> <<first, second>>,
                    task |-> T1_two, client |-> client, workers |-> ws,
                    result |-> applyBusinessRules(<<first, second>>, T1_two, client, ws)]
  /\ UNCHANGED <<uploadVars, pageVars, limiterVars, request>>
  /\ UNCHANGED <<inputVars, runVars, validations>>

NextPure ==
  \/ SelectOptimalPhase
  \/ ApplySpecificRule
  \/ ApplyBusinessRules
  \/ ParseClient
  \/ ParseWorker
  \/ ParseTask

InitPure ==
  /\ Constructed(<<>>, <<>>, <<>>, <<>>, <<>>)
  /\ NoRun
  /\ validations = <<>>
  /\ returned = NoCall
  /\ NoUpload /\ NoPage /\ NoLimiter /\ NoRequest

SpecPure == InitPure /\ [][NextPure]_vars

(***************************************************************************)
(* The FileUpload component.  A file is its MIME type; a call of           *)
(* onFileUpload is recorded with the uploadedFiles prop it was made under. *)
(***************************************************************************)
MaxUploads == 3

\* getNextTypeToUpload
getNextTypeToUpload(uploaded) ==
  IF ~uploaded.clients THEN "clients"
  ELSE IF ~uploaded.workers THEN "workers"
  ELSE IF ~uploaded.tasks THEN "tasks"
  ELSE "null"

\* a getUploadStatus that lets every type be uploaded
getUploadStatusAnyType(typeId, uploaded, selected) ==
  [hasFiles |-> Len(selected[typeId]) > 0,
   isUploaded |-> uploaded[typeId],
   canUpload |-> TRUE,
   isPending |-> FALSE]

\* getUploadStatus
getUploadStatus(typeId, uploaded, selected) ==
  [hasFiles |-> Len(selected[typeId]) > 0,
   isUploaded |-> uploaded[typeId],
   canUpload |-> getNextTypeToUpload(uploaded) = typeId \/ uploaded[typeId],
   isPending |-> ~(getNextTypeToUpload(uploaded) = typeId \/ uploaded[typeId])
                 /\ ~uploaded[typeId]]

\* the MIME types handleDrop lets through
validFileTypes ==
  {"text/csv", "application/vnd.openxmlformats-officedocument.spreadsheetml.sheet",
   "application/vnd.ms-excel"}

\* the files of a drop or of a file input
FileLists ==
  {<<>>, <<"text/csv">>, <<"image/png">>, <<"image/png", "application/vnd.ms-excel">>}

\* setSelectedFiles(...) and onFileUpload(files, type)
selectAndUpload(files, type, via) ==
  /\ selectedFiles' = [selectedFiles EXCEPT ![type] = files]
  /\ uploadCalls' = Append(uploadCalls, [type |-> type, files |-> files, via |-> via,
                                         uploadedFiles |-> uploadedFiles])
  /\ UNCHANGED uploadedFiles

\* the guard of both handlers
handlerReturns(status) == ~status.canUpload \/ status.isUploaded

\* handleDrop(e, type)
HandleDrop ==
  /\ Len(uploadCalls) < MaxUploads
  /\ \E type \in Range(UploadTypes), files \in FileLists :
       IF handlerReturns(getUploadStatus(type, uploadedFiles, selectedFiles))
            \/ SelectSeq(files, LAMBDA f : f \in validFileTypes) = <<>>
         THEN UNCHANGED uploadVars
         ELSE selectAndUpload(SelectSeq(files, LAMBDA f : f \in validFileTypes), type,
                              "drop")
  /\ UNCHANGED <<inputVars, runVars, validations, returned, pageVars, limiterVars,
                 request>>

\* handleFileSelect(e, type)
HandleFileSelect ==
  /\ Len(uploadCalls) < MaxUploads
  /\ \E type \in Range(UploadTypes), files \in FileLists :
       IF handlerReturns(getUploadStatus(type, uploadedFiles, selectedFiles))
            \/ files = <<>>
         THEN UNCHANGED uploadVars
         ELSE selectAndUpload(files, type, "select")
  /\ UNCHANGED <<inputVars, runVars, validations, returned, pageVars, limiterVars,
                 request>>

\* the parent renders the component again with one more type uploaded
ParentRenders ==
  /\ \E type \in Range(UploadTypes) :
       /\ ~uploadedFiles[type]
       /\ uploadedFiles' = [uploadedFiles EXCEPT ![type] = TRUE]
  /\ UNCHANGED <<selectedFiles, uploadCalls>>
  /\ UNCHANGED <<inputVars, runVars, validations, returned, pageVars, limiterVars,
                 request>>

NextUpload == HandleDrop \/ HandleFileSelect \/ ParentRenders

InitUpload ==
  /\ Constructed(<<>>, <<>>, <<>>, <<>>, <<>>)
  /\ NoRun
  /\ validations = <<>>
  /\ returned = NoCall
  /\ NoUpload /\ NoPage /\ NoLimiter /\ NoRequest

SpecUpload == InitUpload /\ [][NextUpload]_vars

(***************************************************************************)
(* The page (HomePage).  A data sheet keeps id, type, data and             *)
(* validationErrors; its id is its place in dataSheets, 0 stands for no    *)
(* active sheet.  pending holds the sheets an awaited                      *)
(* runComprehensiveValidation was called with.                             *)
(***************************************************************************)
DataSheet(id, type, data, validationErrors) ==
  [id |-> id, type |-> type, data |-> data, validationErrors |-> validationErrors]

\* a finding of the page: it has no validationType
PageFinding(id, key, row, column, message, severity) ==
  Finding(id, key, row, column, message, severity, "none")

\* sheets.filter(s => s.type === type).flatMap(s => s.data)
allOfType(sheets, type) ==
  flatten([k \in 1..Len(sheets) |->
             IF sheets[k].type = type THEN sheets[k].data ELSE <<>>])

requiredColumns(type) ==
  IF type = "clients" THEN requiredClientColumns
  ELSE IF type = "workers" THEN requiredWorkerColumns
  ELSE requiredTaskColumns

\* required.forEach(column => { if (!(column in firstRow)) ... })
missingColumns(sheet) ==
  flatten([k \in 1..Len(requiredColumns(sheet.type)) |->
    IF requiredColumns(sheet.type)[k] \in DOMAIN sheet.data[1] THEN <<>>
    ELSE <<PageFinding("missing", <<requiredColumns(sheet.type)[k]>>, 0 - 1,
                       requiredColumns(sheet.type)[k],
                       <<requiredColumns(sheet.type)[k]>>, "error")>>])

\* the unknown references of one client of a clients sheet
unknownTaskRefs(client, index, taskIds) ==
  flatten([k \in 1..Len(splitTrim(client.RequestedTaskIDs)) |->
    IF splitTrim(client.RequestedTaskIDs)[k] = <<>>
         \/ splitTrim(client.RequestedTaskIDs)[k] \in taskIds
      THEN <<>>
      ELSE <<PageFinding("unknown-task-ref",
                         <<client.ClientID, splitTrim(client.RequestedTaskIDs)[k]>>,
                         index, "RequestedTaskIDs",
                         <<splitTrim(client.RequestedTaskIDs)[k]>>, "error")>>])

\* the lower-cased skills of all workers
skillsOfWorkers(allWorkers) ==
  UNION {{toLowerCase(s) : s \in Range(splitTrim(allWorkers[i].Skills))} :
           i \in 1..Len(allWorkers)}

skillsUncovered(task, skills) ==
  SelectSeq(splitTrim(task.RequiredSkills),
            LAMBDA skill : skill # <<>> /\ toLowerCase(skill) \notin skills)

\* what the flatMap over the tasks' PreferredPhases yields: the numbers, and
\* whether a null or an object is among the elements
phaseValue(task) ==
  IF task.PreferredPhases = <<>> THEN JArray(<<>>) ELSE G_parsePhases(task.PreferredPhases)

taskPhaseNumbers(allTasks) ==
  UNION {IF phaseValue(allTasks[i]).t \in {"array", "number"}
           THEN Range(phaseValue(allTasks[i]).v) ELSE {} : i \in 1..Len(allTasks)}

taskPhaseOthers(allTasks) ==
  \E i \in 1..Len(allTasks) : phaseValue(allTasks[i]).t \in {"null", "object"}

\* no slot of the worker is a task phase although there are task phases;
\* a slots text that is no JSON array ends in the catch block
noPhaseOverlap(worker, allTasks) ==
  /\ worker.AvailableSlots # <<>>
  /\ JSONparse(worker.AvailableSlots).t = "array"
  /\ Range(JSONparse(worker.AvailableSlots).v) \cap taskPhaseNumbers(allTasks) = {}
  /\ taskPhaseNumbers(allTasks) # {} \/ taskPhaseOthers(allTasks)

\* the cross-referential checks of one sheet
crossReferential(sheet, allWorkers, allTasks) ==
  flatten([i \in 1..Len(sheet.data) |->
    IF sheet.type = "clients"
      THEN (IF sheet.data[i].RequestedTaskIDs = <<>> THEN <<>>
            ELSE unknownTaskRefs(sheet.data[i], i - 1,
                                 {allTasks[k].TaskID : k \in 1..Len(allTasks)}))
    ELSE IF sheet.type = "tasks"
      THEN (IF sheet.data[i].RequiredSkills # <<>>
                 /\ skillsUncovered(sheet.data[i], skillsOfWorkers(allWorkers)) # <<>>
              THEN <<PageFinding("uncovered-skills", <<sheet.data[i].TaskID>>, i - 1,
                                 "RequiredSkills",
                                 skillsUncovered(sheet.data[i],
                                                 skillsOfWorkers(allWorkers)),
                                 "error")>>
              ELSE <<>>)
    ELSE (IF noPhaseOverlap(sheet.data[i], allTasks)
            THEN <<PageFinding("no-phase-overlap", <<sheet.data[i].WorkerID>>, i - 1,
                               "AvailableSlots", <<sheet.data[i].AvailableSlots>>,
                               "warning")>>
            ELSE <<>>)])

emptyName(name) == name \in {"", " "}

\* the type-specific checks of one row; numbers are falsy when 0
clientRowFindings(row, index) ==
  (IF row.PriorityLevel # 0 /\ (row.PriorityLevel < 1 \/ row.PriorityLevel > 5)
     THEN <<PageFinding("invalid-priority", <<row.ClientID>>, index, "PriorityLevel",
                        <<row.PriorityLevel>>, "error")>>
     ELSE <<>>)
  \o (IF row.AttributesJSON # <<>> /\ JSONparse(row.AttributesJSON).t = "throw"
        THEN <<PageFinding("invalid-json", <<row.ClientID>>, index, "AttributesJSON",
                           <<>>, "error")>>
        ELSE <<>>)
  \o (IF emptyName(row.ClientName)
        THEN <<PageFinding("empty-name", <<row.ClientID>>, index, "ClientName", <<>>,
                           "error")>>
        ELSE <<>>)

workerRowFindings(row, index) ==
  (IF row.QualificationLevel # 0
        /\ (row.QualificationLevel < 1 \/ row.QualificationLevel > 10)
     THEN <<PageFinding("invalid-qualification-numeric", <<row.WorkerID>>, index,
                        "QualificationLevel", <<row.QualificationLevel>>, "warning")>>
     ELSE <<>>)
  \o (IF row.Skills # <<>> /\ SelectSeq(splitTrim(row.Skills), LAMBDA s : Len(s) > 0) = <<>>
        THEN <<PageFinding("empty-skills", <<row.WorkerID>>, index, "Skills", <<>>,
                           "error")>>
        ELSE <<>>)
  \o (IF row.MaxLoadPerPhase < 1
        THEN <<PageFinding("invalid-load", <<row.WorkerID>>, index, "MaxLoadPerPhase",
                           <<row.MaxLoadPerPhase>>, "error")>>
        ELSE <<>>)
  \o (IF emptyName(row.WorkerName)
        THEN <<PageFinding("empty-worker-name", <<row.WorkerID>>, index, "WorkerName",
                           <<>>, "error")>>
        ELSE <<>>)

taskRowFindings(row, index) ==
  (IF row.Duration # 0 /\ row.Duration < 1
     THEN <<PageFinding("invalid-duration", <<row.TaskID>>, index, "Duration",
                        <<row.Duration>>, "error")>>
     ELSE <<>>)
  \o (IF row.MaxConcurrent # 0 /\ row.MaxConcurrent < 1
        THEN <<PageFinding("invalid-concurrent", <<row.TaskID>>, index, "MaxConcurrent",
                           <<row.MaxConcurrent>>, "warning")>>
        ELSE <<>>)
  \o (IF emptyName(row.TaskName)
        THEN <<PageFinding("empty-task-name", <<row.TaskID>>, index, "TaskName", <<>>,
                           "error")>>
        ELSE <<>>)

typeSpecific(sheet) ==
  flatten([i \in 1..Len(sheet.data) |->
    IF sheet.type = "clients" THEN clientRowFindings(sheet.data[i], i - 1)
    ELSE IF sheet.type = "workers" THEN workerRowFindings(sheet.data[i], i - 1)
    ELSE taskRowFindings(sheet.data[i], i - 1)])

\* runComprehensiveBasicValidation
runComprehensiveBasicValidation(sheet, allClients, allWorkers, allTasks, hasAllDataTypes) ==
  IF Len(sheet.data) = 0
    THEN <<PageFinding("empty-data", <<>>, 0 - 1, "general", <<>>, "error")>>
    ELSE missingColumns(sheet)
         \o (IF hasAllDataTypes THEN crossReferential(sheet, allWorkers, allTasks)
             ELSE <<>>)
         \o typeSpecific(sheet)

\* e.id === error.id || (e.row === error.row && e.column === error.column &&
\* e.message === error.message)
sameError(e, error) ==
  \/ e.id = error.id /\ e.key = error.key
  \/ e.row = error.row /\ e.column = error.column /\ e.id = error.id
       /\ e.message = error.message

\* combinedErrors.filter((error, index, self) => index === self.findIndex(...))
uniqueErrors(combined) ==
  flatten([k \in 1..Len(combined) |->
    IF \E j \in 1..(k - 1) : sameError(combined[j], combined[k]) THEN <<>>
    ELSE <<combined[k]>>])

\* validationSummary.errors.filter(e => e.validationType &&
\* e.validationType.includes(sheet.type)): validationType is one word, or
\* missing ("none")
includesType(validationType, type) == validationType = type

aiErrors(summary, type) ==
  SelectSeq(summary.errors,
            LAMBDA e : e.validationType # "none" /\ includesType(e.validationType, type))

\* what enhancedValidation and suggestDataCorrections answer for a sheet: the
\* answers of the model, [] when the request fails; a suggestion is turned
\* into a finding of severity 'info'
AIAnswers ==
  { [enhanced |-> <<>>, corrections |-> <<>>],
    [enhanced |-> <<PageFinding("ai", <<>>, 0, "ai", <<>>, "warning")>>,
     corrections |-> <<PageFinding("correction", <<>>, 0, "ai", <<>>, "info")>>] }

\* the validated copy of one sheet
validatedSheet(sheet, sheets, key, enhanced, corrections) ==
  [sheet EXCEPT !.validationErrors =
     uniqueErrors(
       (IF key
          THEN aiErrors(validateData(allOfType(sheets, "clients"),
                                     allOfType(sheets, "workers"),
                                     allOfType(sheets, "tasks")), sheet.type)
               \o enhanced \o corrections
          ELSE <<>>)
       \o runComprehensiveBasicValidation(sheet, allOfType(sheets, "clients"),
            allOfType(sheets, "workers"), allOfType(sheets, "tasks"),
            /\ Len(allOfType(sheets, "clients")) > 0
            /\ Len(allOfType(sheets, "workers")) > 0
            /\ Len(allOfType(sheets, "tasks")) > 0))]

\* sheets.map(async (sheet) => ...)
validatedSheets(sheets, key, enhanced, corrections) ==
  [k \in 1..Len(sheets) |-> validatedSheet(sheets[k], sheets, key, enhanced, corrections)]

\* criticalErrors === 0
criticalErrors(sheets) ==
  Len(flatten([k \in 1..Len(sheets) |->
        SelectSeq(sheets[k].validationErrors, LAMBDA e : e.severity = "error")]))

canExport(sheets) == criticalErrors(sheets) = 0

\* the data of the uploaded files and of the edited grids
PageClientData ==
  { <<>>,
    <<Client("C1", 3, ID_T1)>>,
    <<Client("C1", 8, R_T9)>>,
    <<Client("C1", 3, ID_T1), Client("C1", 3, ID_T1)>> }

PageWorkerData ==
  { <<Worker("W1", S_js, A_1, 1, "A", 3)>>,
    <<Worker("W1", S_py, A_text, 0, "A", 12)>> }

PageTaskData == { <<T1_minus>> }

PageData(type) ==
  IF type = "clients" THEN PageClientData
  ELSE IF type = "workers" THEN PageWorkerData
  ELSE PageTaskData

\* the modifications the search panel hands over
PageModifications ==
  { <<[row |-> 0, column |-> "PriorityLevel", suggestedValue |-> 3],
      [row |-> 2, column |-> "PriorityLevel", suggestedValue |-> 8]>> }

\* { ...row, [column]: suggestedValue }
withColumn(row, column, value) ==
  [c \in DOMAIN row \cup {column} |-> IF c = column THEN value ELSE row[c]]

RECURSIVE modified(_, _)
modified(data, modifications) ==
  IF modifications = <<>> THEN data
  ELSE modified(
         IF Head(modifications).row >= 0 /\ Head(modifications).row < Len(data)
           THEN [data EXCEPT ![Head(modifications).row + 1] =
                   withColumn(@, Head(modifications).column,
                              Head(modifications).suggestedValue)]
           ELSE data,
         Tail(modifications))

\* setDataSheets(prev => prev.map(...)) of handleDataUpdate
dataUpdated(sheets, sheetId, updatedData) ==
  [k \in 1..Len(sheets) |->
     IF sheets[k].id = sheetId
       THEN [sheets[k] EXCEPT !.data = updatedData, !.validationErrors = <<>>]
       ELSE sheets[k]]

\* the types that have a sheet
sheetTypes(sheets) ==
  [type \in Range(UploadTypes) |-> \E k \in 1..Len(sheets) : sheets[k].type = type]

\* handleFileUpload(files, type) with one file of the next type in the order
\* of the upload component: the sheet is added and the validation of the new
\* list is awaited
HandleFileUpload ==
  /\ pending = <<>>
  /\ \E type \in Range(UploadTypes) : \E data \in PageData(type) :
       /\ getNextTypeToUpload(sheetTypes(dataSheets)) = type
       /\ dataSheets' = Append(dataSheets, DataSheet(Len(dataSheets) + 1, type, data, <<>>))
       /\ pending' = <<Append(dataSheets, DataSheet(Len(dataSheets) + 1, type, data, <<>>))>>
  /\ activeSheet' = IF activeSheet = 0 THEN Len(dataSheets) + 1 ELSE activeSheet
  /\ UNCHANGED <<apiKey, inputVars, runVars, validations, returned, uploadVars,
                 limiterVars, request>>

\* onRunComprehensiveValidation: runComprehensiveValidation(dataSheets) begins
RunComprehensiveValidation ==
  /\ dataSheets # <<>>
  /\ pending = <<>>
  /\ pending' = <<dataSheets>>
  /\ UNCHANGED <<apiKey, dataSheets, activeSheet, inputVars, runVars, validations,
                 returned, uploadVars, limiterVars, request>>

\* the awaited validations are done: setDataSheets(updatedSheets)
ValidationDone ==
  /\ pending # <<>>
  /\ \E answers \in AIAnswers :
       /\ dataSheets' = validatedSheets(pending[1], apiKey, answers.enhanced,
                                        answers.corrections)
       /\ returned' = [op |-> "runComprehensiveValidation", apiKey |-> apiKey,
                       sheets |-> pending[1],
                       result |-> validatedSheets(pending[1], apiKey, answers.enhanced,
                                                  answers.corrections)]
  /\ pending' = <<>>
  /\ UNCHANGED <<apiKey, activeSheet, inputVars, runVars, validations, uploadVars,
                 limiterVars, request>>

\* handleDataUpdate(sheetId, updatedData): a cell edit or an applied
\* correction, made while no validation is awaited
HandleDataUpdate ==
  /\ pending = <<>>
  /\ \E k \in 1..Len(dataSheets) : \E updatedData \in PageData(dataSheets[k].type) :
       dataSheets' = dataUpdated(dataSheets, dataSheets[k].id, updatedData)
  /\ UNCHANGED <<apiKey, activeSheet, pending, inputVars, runVars, validations,
                 returned, uploadVars, limiterVars, request>>

\* handleDataModification(modifications)
HandleDataModification ==
  /\ pending = <<>>
  /\ activeSheet # 0
  /\ \E modifications \in PageModifications :
       dataSheets' = dataUpdated(dataSheets, activeSheet,
                                 modified(dataSheets[activeSheet].data, modifications))
  /\ UNCHANGED <<apiKey, activeSheet, pending, inputVars, runVars, validations,
                 returned, uploadVars, limiterVars, request>>

NextPage ==
  \/ HandleFileUpload
  \/ RunComprehensiveValidation
  \/ ValidationDone
  \/ HandleDataUpdate
  \/ HandleDataModification

\* process.env.NEXT_PUBLIC_AI_API_KEY is set or not
InitPage ==
  /\ Constructed(<<>>, <<>>, <<>>, <<>>, <<>>)
  /\ NoRun
  /\ validations = <<>>
  /\ returned = NoCall
  /\ NoUpload /\ NoLimiter /\ NoRequest
  /\ apiKey \in BOOLEAN
  /\ dataSheets = <<>> /\ activeSheet = 0 /\ pending = <<>>

SpecPage == InitPage /\ [][NextPage]_vars

(***************************************************************************)
(* GeminiProvider.waitForRateLimit.  The clock counts milliseconds since   *)
(* the construction of the provider.  callers holds the calls that are     *)
(* suspended in an await.  windowOpened and windowPassed observe the       *)
(* limiter: the time of the first reset after the end of the window        *)
(* observed before, and the calls that passed in the windowMs after it.    *)
(***************************************************************************)
maxRequests == 15

windowMs == 60000

MaxTicks == 4

MaxCallers == 2

\* the clock advances by half a window
tickMs == windowMs \div 2

\* if (now >= this.rateLimiter.resetTime) { requests = 0; resetTime = now + windowMs }
resetIfPassed(limiter, time) ==
  IF time >= limiter.resetTime
    THEN [limiter EXCEPT !.requests = 0, !.resetTime = time + windowMs]
    ELSE limiter

\* this.rateLimiter.requests++
counted(limiter) == [limiter EXCEPT !.requests = @ + 1]

\* the limiter is reset at this time: a window is opened unless the time
\* lies in the window observed
observeReset(time) ==
  IF time >= windowOpened + windowMs
    THEN windowOpened' = time /\ windowPassed' = 0
    ELSE UNCHANGED <<windowOpened, windowPassed>>

\* a call passes at this time, after a reset at this time or without one
observePass(time, reset) ==
  IF reset /\ time >= windowOpened + windowMs
    THEN windowOpened' = time /\ windowPassed' = 1
    ELSE /\ windowOpened' = windowOpened
         /\ windowPassed' = IF time < windowOpened + windowMs THEN windowPassed + 1
                            ELSE windowPassed

\* a call of waitForRateLimit up to its return or to its first await
CallerEnters ==
  /\ IF resetIfPassed(rateLimiter, now).requests >= maxRequests
       THEN /\ Len(callers) < MaxCallers
            /\ rateLimiter' = resetIfPassed(rateLimiter, now)
            /\ callers' = Append(callers,
                                 [pc |-> "waiting",
                                  wakeAt |-> resetIfPassed(rateLimiter, now).resetTime])
            /\ observeReset(IF now >= rateLimiter.resetTime THEN now ELSE windowOpened)
       ELSE /\ rateLimiter' = counted(resetIfPassed(rateLimiter, now))
            /\ callers' = callers
            /\ observePass(now, now >= rateLimiter.resetTime)
  /\ UNCHANGED <<now, inputVars, runVars, validations, returned, uploadVars, pageVars,
                 request>>

\* the list without its k-th element
without(list, k) == SubSeq(list, 1, k - 1) \o SubSeq(list, k + 1, Len(list))

\* the timer of a waiting call has fired: requests = 0, resetTime =
\* Date.now() + windowMs; on a server the call counts itself and returns, in
\* a browser it awaits the import of the toast module first
CallerWakes ==
  /\ \E k \in 1..Len(callers) :
       /\ callers[k].pc = "waiting"
       /\ now >= callers[k].wakeAt
       /\ IF rateLimiter.inBrowser
            THEN /\ rateLimiter' = [rateLimiter EXCEPT !.requests = 0,
                                                       !.resetTime = now + windowMs]
                 /\ callers' = [callers EXCEPT ![k].pc = "dismissing"]
                 /\ observeReset(now)
            ELSE /\ rateLimiter' = counted([rateLimiter EXCEPT !.requests = 0,
                                                               !.resetTime = now + windowMs])
                 /\ callers' = without(callers, k)
                 /\ observePass(now, TRUE)
  /\ UNCHANGED <<now, inputVars, runVars, validations, returned, uploadVars, pageVars,
                 request>>

\* in a browser: the toast is dismissed, the call counts itself and returns
CallerResumes ==
  /\ \E k \in 1..Len(callers) :
       /\ callers[k].pc = "dismissing"
       /\ rateLimiter' = counted(rateLimiter)
       /\ callers' = without(callers, k)
       /\ observePass(now, FALSE)
  /\ UNCHANGED <<now, inputVars, runVars, validations, returned, uploadVars, pageVars,
                 request>>

\* time passes
Tick ==
  /\ now < MaxTicks * tickMs
  /\ now' = now + tickMs
  /\ UNCHANGED <<rateLimiter, callers, windowOpened, windowPassed, inputVars, runVars,
                 validations, returned, uploadVars, pageVars, request>>

NextLimiter == CallerEnters \/ CallerWakes \/ CallerResumes \/ Tick

\* the constructor, in a browser or on a server
InitLimiter ==
  /\ Constructed(<<>>, <<>>, <<>>, <<>>, <<>>)
  /\ NoRun
  /\ validations = <<>>
  /\ returned = NoCall
  /\ NoUpload /\ NoPage /\ NoRequest
  /\ now = 0
  /\ \E inBrowser \in BOOLEAN :
       rateLimiter = [requests |-> 0, resetTime |-> now + windowMs,
                      inBrowser |-> inBrowser]
  /\ callers = <<>>
  /\ windowOpened = 0
  /\ windowPassed = 0

SpecLimiter == InitLimiter /\ [][NextLimiter]_vars

(***************************************************************************)
(* GeminiProvider.makeGeminiRequest.  request holds the position of one    *)
(* call: the attempt of the loop, the API attempts made so far and what    *)
(* they produced.  A returned text is named by the attempt that gave it.   *)
(***************************************************************************)
MaxRetries == 3

\* what an API attempt produces: a text, an empty text, a 429 error, another
\* error
Outcomes == {"text", "empty", "429", "error"}

\* the loop goes on one attempt too long
nextAttemptOneMore(req) ==
  IF req.attempt + 1 <= req.retries + 1
    THEN [req EXCEPT !.pc = "calling", !.attempt = @ + 1]
    ELSE [req EXCEPT !.pc = "thrown", !.error = "Max retries exceeded"]

\* attempt++ and the test attempt <= retries of the for loop; after the loop
\* throw new Error('Max retries exceeded')
nextAttempt(req) ==
  IF req.attempt + 1 <= req.retries
    THEN [req EXCEPT !.pc = "calling", !.attempt = @ + 1]
    ELSE [req EXCEPT !.pc = "thrown", !.error = "Max retries exceeded"]

\* the try block and the catch block of one attempt, up to the backoff
attempted(req, outcome) ==
  IF outcome = "text"
    THEN [req EXCEPT !.pc = "returned", !.result = req.attempt]
  ELSE IF outcome = "429"
    THEN [req EXCEPT !.pc = "backoff"]
  ELSE IF req.attempt = req.retries
    THEN [req EXCEPT !.pc = "thrown",
                     !.error = IF outcome = "empty" THEN "No response text"
                               ELSE "error"]
  ELSE [req EXCEPT !.pc = "backoff"]

\* makeGeminiRequest(prompt, retries) is called
MakeGeminiRequest ==
  /\ request.pc = "none"
  /\ \E retries \in 0..MaxRetries :
       request' = nextAttempt([pc |-> "calling", retries |-> retries, attempt |-> 0,
                               calls |-> 0, outcomes |-> <<>>, result |-> 0,
                               error |-> "none"])
  /\ UNCHANGED <<inputVars, runVars, validations, returned, uploadVars, pageVars,
                 limiterVars>>

\* generateContent answers
AttemptAnswers ==
  /\ request.pc = "calling"
  /\ \E outcome \in Outcomes :
       request' = attempted([request EXCEPT !.calls = @ + 1,
                                            !.outcomes = Append(@, outcome)], outcome)
  /\ UNCHANGED <<inputVars, runVars, validations, returned, uploadVars, pageVars,
                 limiterVars>>

\* the backoff timer fires: continue, or the end of the catch block
BackoffEnds ==
  /\ request.pc = "backoff"
  /\ request' = nextAttempt(request)
  /\ UNCHANGED <<inputVars, runVars, validations, returned, uploadVars, pageVars,
                 limiterVars>>

NextRetry == MakeGeminiRequest \/ AttemptAnswers \/ BackoffEnds

InitRetry ==
  /\ Constructed(<<>>, <<>>, <<>>, <<>>, <<>>)
  /\ NoRun
  /\ validations = <<>>
  /\ returned = NoCall
  /\ NoUpload /\ NoPage /\ NoLimiter /\ NoRequest

SpecRetry == InitRetry /\ [][NextRetry]_vars

\* every awaited promise settles: the API answers and the timers fire
SpecRetryFair == SpecRetry /\ WF_vars(NextRetry)

(***************************************************************************)
(* What the specification says of a record, used to state the properties:  *)
(* a list field is its comma-separated tokens, trimmed, the empty ones     *)
(* dropped; AvailableSlots and PreferredPhases are integer sequences,      *)
(* empty when the text is not one.                                         *)
(***************************************************************************)
Tokens(text) == SelectSeq(splitTrim(text), LAMBDA t : t # <<>>)

IntegerList(j) == IF j.t = "array" THEN j.v ELSE <<>>

SlotsOf(worker) == IntegerList(G_parseSlots(worker.AvailableSlots))

PhasesOf(task) == IntegerList(G_parsePhases(task.PreferredPhases))

\* the worker holds the skill, tags compared without regard to case
Holds(worker, skill) ==
  \E k \in 1..Len(Tokens(worker.Skills)) :
    toLowerCase(Tokens(worker.Skills)[k]) = toLowerCase(skill)

Qualified(worker, task) == \A s \in Range(Tokens(task.RequiredSkills)) : Holds(worker, s)

Eligible(worker, task) == Qualified(worker, task) /\ SlotsOf(worker) # <<>>

\* every AllocationResult produced so far, by the calls that ended and by the
\* one in progress
Results == Range(allocations) \cup UNION {Range(summaries[n].allocations) : n \in DOMAIN summaries}

TaskOf(r) == tasks[CHOOSE i \in findTask(tasks, r.taskId) : \A k \in findTask(tasks, r.taskId) : i <= k]

AssignedWorkers(r) == {w \in Range(workers) : w.WorkerID \in Range(r.assignedWorkerIds)}

(***************************************************************************)
(* The allocation engine.                                                  *)
(***************************************************************************)
\* C2: for every AllocationResult, the task's parsed PreferredPhases is empty
\* or the AvailableSlots of every assigned worker contain the chosen phase.
PhaseFeasibility ==
  \A r \in Results :
    \/ PhasesOf(TaskOf(r)) = <<>>
    \/ \A w \in AssignedWorkers(r) : r.phase \in Range(SlotsOf(w))

\* C3: for every AllocationResult, the number of assigned workers is at most
\* the task's MaxConcurrent and at most the number of workers that hold all
\* the required skills.
CapacityInvariant ==
  \A r \in Results :
    /\ Len(r.assignedWorkerIds) <= TaskOf(r).MaxConcurrent
    /\ Len(r.assignedWorkerIds)
         <= Cardinality({i \in 1..Len(workers) : Qualified(workers[i], TaskOf(r))})

\* C4: no call of executeAllocation rejects, whatever the texts of
\* AvailableSlots and PreferredPhases are.
NeverRejects == pc # "rejected" /\ \A n \in DOMAIN summaries : ~summaries[n].rejected

InputsUnchanged ==
  /\ clients = given.clients
  /\ workers = given.workers
  /\ tasks = given.tasks
  /\ ruleList = given.rules
  /\ priorities = given.priorities

\* a call has ended in which a sorting rule put another worker first than the
\* first worker of the array
SortedRunDone ==
  /\ Len(summaries) >= 1
  /\ Len(rules) >= 1
  /\ includesText(toLowerCase(rules[1].naturalLanguage), T_senior)
  /\ Len(summaries[1].allocations) >= 1
  /\ Len(summaries[1].allocations[1].assignedWorkerIds) = 2
  /\ summaries[1].allocations[1].assignedWorkerIds[1] = workers[2].WorkerID
  /\ workers[1].WorkerID # workers[2].WorkerID

\* C10: for every task, findEligibleWorkers returns the workers that hold all
\* the required skills and have a parsed slot, in the order of the array, and
\* the workers of every AllocationResult are such workers.
EligibilityExact ==
  /\ \A k \in 1..Len(tasks) :
       /\ ~findEligibleWorkers(workers, tasks[k]).threw
       /\ findEligibleWorkers(workers, tasks[k]).eligible
            = SelectSeq(workers, LAMBDA w : Eligible(w, tasks[k]))
  /\ \A r \in Results : \A w \in AssignedWorkers(r) : Eligible(w, TaskOf(r))

(***************************************************************************)
(* The validation engine.                                                  *)
(***************************************************************************)
\* the findings of a returned summary that carry a validation type
FindingsOf(summary, validationType) ==
  SelectSeq(summary.errors, LAMBDA e : e.validationType = validationType)

\* how many findings of the list are on this row and column
CountAt(findings, row, column) ==
  Cardinality({k \in 1..Len(findings) : findings[k].row = row /\ findings[k].column = column})

\* how many findings of the list are on this row and name this text
CountNaming(findings, row, text) ==
  Cardinality({k \in 1..Len(findings) : findings[k].row = row /\ findings[k].message = <<text>>})

\* the duplicate_id findings are one for each record whose key repeats an
\* earlier key of its collection, on the row of that record
DuplicatesReported(summary, list, column) ==
  \A i \in 1..Len(list) :
    CountAt(FindingsOf(summary, "duplicate_id"), i - 1, column)
      = IF \E k \in 1..(i - 1) : list[k][column] = list[i][column] THEN 1 ELSE 0

\* C1: whenever validateData runs its checks to the end, the duplicate_id
\* errors are exactly one for every record of the clients, of the workers and
\* of the tasks whose primary key repeats an earlier one, on its row.
UniquenessReported ==
  \A n \in DOMAIN validations :
    validations[n] # systemError =>
      /\ DuplicatesReported(validations[n], clients, "ClientID")
      /\ DuplicatesReported(validations[n], workers, "WorkerID")
      /\ DuplicatesReported(validations[n], tasks, "TaskID")

\* the findings of the checks that read the client and task records as they
\* are given
RecordFindings ==
  Range(validateDuplicateIds(clients, workers, tasks))
    \cup Range(validateOutOfRange(clients, tasks))
    \cup Range(validateBrokenJson(clients))

\* C5: the summary that validateData returns contains the findings of the
\* other records, also when the slots of a worker or the phases of a task are
\* JSON that is no array.
CollectsFindings ==
  \A n \in DOMAIN validations : RecordFindings \subseteq Range(validations[n].errors)

\* C8: whenever validateData runs its checks to the end, a required skill of
\* a task has a skill_coverage error if and only if no worker holds it, tags
\* compared without regard to case, and then exactly one.
SkillCoverageExact ==
  \A n \in DOMAIN validations :
    validations[n] # systemError =>
      \A i \in 1..Len(tasks) :
        \A s \in Range(Tokens(tasks[i].RequiredSkills)) :
          CountNaming(FindingsOf(validations[n], "skill_coverage"), i - 1, s)
            = IF \E k \in 1..Len(workers) : Holds(workers[k], s) THEN 0 ELSE 1

TaskIds == {tasks[k].TaskID : k \in 1..Len(tasks)}

\* C9: what validateData returns holds one unknown_reference error for each
\* non-empty comma-separated token of a client's RequestedTaskIDs that is no
\* TaskID, on the client's row and naming the token, and none for a token
\* that is a TaskID; so with no such error every requested ID is the TaskID
\* of a task.
ReferentialClosure ==
  \A n \in DOMAIN validations :
    /\ \A i \in 1..Len(clients) :
         \A token \in Range(Tokens(clients[i].RequestedTaskIDs)) :
           CountNaming(FindingsOf(validations[n], "unknown_reference"), i - 1, token)
             = IF token \in TaskIds THEN 0
               ELSE occurrences(Tokens(clients[i].RequestedTaskIDs), token)
    /\ (FindingsOf(validations[n], "unknown_reference") = <<>> =>
          \A i \in 1..Len(clients) :
            Range(Tokens(clients[i].RequestedTaskIDs)) \subseteq TaskIds)

(***************************************************************************)
(* Unassigned tasks.                                                       *)
(***************************************************************************)
\* the task of the queue entry has no eligible worker
Unassignable(entry) == \A w \in Range(workers) : ~Eligible(w, entry.task)

\* C11: once a call of executeAllocation has ended, every queue entry whose
\* task has no eligible worker has no AllocationResult and one warning naming
\* its task; and in every returned summary assignedTasks + unassignedTasks =
\* totalTasks and there are as many warnings as unassigned tasks.
UnassignedWarned ==
  /\ pc \in {"done", "rejected"} =>
       \A k \in 1..Len(taskQueue) :
         Unassignable(taskQueue[k]) =>
           /\ \A a \in 1..Len(allocations) :
                allocations[a].taskId # taskQueue[k].task.TaskID
           /\ occurrences(warnings, taskQueue[k].task.TaskName)
                = Cardinality({e \in 1..Len(taskQueue) :
                                 taskQueue[e].task.TaskName = taskQueue[k].task.TaskName})
  /\ \A n \in DOMAIN summaries :
       ~summaries[n].rejected =>
         /\ summaries[n].assignedTasks + summaries[n].unassignedTasks
              = summaries[n].totalTasks
         /\ Len(summaries[n].warnings) = summaries[n].unassignedTasks

(***************************************************************************)
(* The order of the task queue.                                            *)
(***************************************************************************)
\* the requests that resolve to a task: <<i, k>> is request k of client i
ResolvingRequests(cs, ts) ==
  UNION {{<<i, k>> : k \in {x \in 1..Len(Tokens(cs[i].RequestedTaskIDs)) :
                              findTask(ts, Tokens(cs[i].RequestedTaskIDs)[x]) # {}}} :
         i \in 1..Len(cs)}

\* client order, then request order
EnqueuedBefore(r, s) == r[1] < s[1] \/ (r[1] = s[1] /\ r[2] < s[2])

TokenOf(cs, r) == Tokens(cs[r[1]].RequestedTaskIDs)[r[2]]

\* the weight of the Speed priority in hundredths, 0.5 when there is none
SpeedWeight(ps) ==
  IF \E i \in 1..Len(ps) : includesText(toLowerCase(ps[i].name), T_speed)
    THEN ps[CHOOSE i \in 1..Len(ps) :
              /\ includesText(toLowerCase(ps[i].name), T_speed)
              /\ \A k \in 1..(i - 1) : ~includesText(toLowerCase(ps[k].name), T_speed)].weight
    ELSE 50

Product(cs, ps, r) == cs[r[1]].PriorityLevel * SpeedWeight(ps)

\* q holds the requests in the order f: descending product, equal products in
\* enqueue order
OrderedBy(q, f) ==
  /\ \A a, b \in 1..Len(q) : a < b => f[a] # f[b]
  /\ \A k \in 1..Len(q) :
       /\ q[k].client = clients[f[k][1]]
       /\ q[k].task.TaskID = TokenOf(clients, f[k])
       /\ q[k].task \in Range(tasks)
       /\ q[k].priority = q[k].client.PriorityLevel
  /\ \A a, b \in 1..Len(q) :
       a < b =>
         \/ Product(clients, priorities, f[a]) > Product(clients, priorities, f[b])
         \/ /\ Product(clients, priorities, f[a]) = Product(clients, priorities, f[b])
            /\ EnqueuedBefore(f[a], f[b])

\* the results are those of queue entries met in queue order
InQueueOrder(results, q) ==
  \E f \in [1..Len(results) -> 1..Len(q)] :
    /\ \A a, b \in 1..Len(results) : a < b => f[a] < f[b]
    /\ \A a \in 1..Len(results) :
         /\ results[a].taskId = q[f[a]].task.TaskID
         /\ results[a].clientId = q[f[a]].client.ClientID
         /\ results[a].priority = q[f[a]].priority

\* C12: the queue of a run holds one entry for every request of a client that
\* resolves to a task, sorted by descending PriorityLevel x Speed weight with
\* equal products in enqueue order, and the AllocationResults of the run
\* appear in queue order.
QueueOrder ==
  pc # "idle" =>
    /\ Len(taskQueue) = Cardinality(ResolvingRequests(clients, tasks))
    /\ \E f \in [1..Len(taskQueue) -> ResolvingRequests(clients, tasks)] :
         OrderedBy(taskQueue, f)
    /\ InQueueOrder(allocations, taskQueue)

\* a run has ended whose queue put the entries of the second client before
\* those of the first, under a Speed priority, with two results
ReorderedQueueDone ==
  /\ pc = "done"
  /\ priorities # <<>>
  /\ Len(taskQueue) = 4
  /\ taskQueue[1].client = clients[2]
  /\ taskQueue[4].client = clients[1]
  /\ Len(allocations) >= 2

(***************************************************************************)
(* Phase selection.                                                        *)
(***************************************************************************)
\* how many of the workers are available in the phase
Available(ws, phase) == Cardinality({i \in 1..Len(ws) : phase \in Range(SlotsOf(ws[i]))})

\* the first phase of the list that no phase of the list beats
BestPhase(phases, ws) ==
  phases[CHOOSE k \in 1..Len(phases) :
           /\ \A j \in 1..Len(phases) : Available(ws, phases[j]) <= Available(ws, phases[k])
           /\ \A j \in 1..(k - 1) : Available(ws, phases[j]) < Available(ws, phases[k])]

\* C13: selectOptimalPhase returns 1 for a task whose parsed PreferredPhases
\* is empty, and otherwise the phase in which most of the workers are
\* available, the earliest of the PreferredPhases list among equals.
PhaseSelection ==
  returned.op = "selectOptimalPhase" =>
    /\ ~returned.result.threw
    /\ returned.result.phase =
         IF PhasesOf(returned.task) = <<>> THEN 1
         ELSE BestPhase(PhasesOf(returned.task), returned.workers)

(***************************************************************************)
(* Capacity and confidence.                                                *)
(***************************************************************************)
\* the results of the call in progress and of every call that has returned
Runs == {allocations} \cup {summaries[n].allocations : n \in DOMAIN summaries}

\* the Durations of the results of a run that assign the worker in the phase
LoadIn(run, worker, phase) ==
  sumOver([k \in 1..Len(run) |->
             IF worker.WorkerID \in Range(run[k].assignedWorkerIds) /\ run[k].phase = phase
               THEN TaskOf(run[k]).Duration ELSE 0],
          1..Len(run))

\* C14: in the allocations of a run, for every worker and every phase, the
\* Durations of the results that assign the worker in that phase add up to at
\* most the worker's MaxLoadPerPhase.
CapacityShared ==
  \A run \in Runs :
    \A w \in Range(workers) :
      \A k \in 1..Len(run) : LoadIn(run, w, run[k].phase) <= w.MaxLoadPerPhase

\* the utilization the worker has accumulated from the results of the run
\* before result k
UtilizationBefore(run, k, worker) ==
  sumOver([j \in 1..(k - 1) |->
             IF worker.WorkerID \in Range(run[j].assignedWorkerIds)
               THEN TaskOf(run[j]).Duration ELSE 0],
          1..(k - 1))

\* no selected worker of result k would exceed its MaxLoadPerPhase
BonusDue(run, k) ==
  \A w \in AssignedWorkers(run[k]) :
    UtilizationBefore(run, k, w) + TaskOf(run[k]).Duration <= w.MaxLoadPerPhase

\* the confidence of a result without the overload bonus, in tenths
BaseConfidence(r) ==
  5 + (IF \A w \in AssignedWorkers(r) : Qualified(w, TaskOf(r)) THEN 3 ELSE 0)
    + (IF \A w \in AssignedWorkers(r) : r.phase \in Range(SlotsOf(w)) THEN 2 ELSE 0)

\* C15: a result whose confidence the cap at 1 leaves visible carries the
\* +0.1 bonus exactly when, for every selected worker, the utilization
\* accumulated earlier in the run plus the task's Duration is at most the
\* worker's MaxLoadPerPhase.
OverloadBonus ==
  \A run \in Runs :
    \A k \in 1..Len(run) :
      BaseConfidence(run[k]) < 10 =>
        run[k].confidence = BaseConfidence(run[k]) + (IF BonusDue(run, k) THEN 1 ELSE 0)

\* C16: the confidence of every AllocationResult lies between 0 and 1 and is,
\* in tenths, min(10, 5 + 3 when every selected worker holds every required
\* skill + 2 when the slots of every selected worker include the chosen
\* phase + the overload bonus), a bonus of 0 or 1 that is 1 whenever no
\* selected worker would exceed its MaxLoadPerPhase.
ConfidenceValue ==
  \A run \in Runs :
    \A k \in 1..Len(run) :
      /\ 0 <= run[k].confidence /\ run[k].confidence <= 10
      /\ \E bonus \in {0, 1} :
           /\ BonusDue(run, k) => bonus = 1
           /\ run[k].confidence = Min(10, BaseConfidence(run[k]) + bonus)

\* a run has returned a result of confidence 0.8 (a worker without the phase,
\* no bonus) and one of confidence 1.0 whose two conditions both hold
ConfidencesSeen ==
  /\ pc = "done"
  /\ \E a, b \in 1..Len(allocations) :
       /\ allocations[a].confidence = 8
       /\ allocations[b].confidence = 10
       /\ BaseConfidence(allocations[b]) = 10

(***************************************************************************)
(* C17.                                                                    *)
(***************************************************************************)
\* the words the rule interpreter recognizes
Keywords ==
  {T_senior, T_experienced, T_expert, T_qualification, T_level, T_balance,
   T_distribute, T_evenly, T_cost, T_budget, T_cheap, T_high_priority,
   T_urgent, T_group, T_team}

\* the rule's text, in lower case, contains none of the recognized words
Inert(rule) ==
  \A word \in Keywords : ~includesText(toLowerCase(rule.naturalLanguage), word)

\* C17: in every summary executeAllocation returns, no active rule whose text
\* contains none of the recognized keywords is listed in executedRules.
InertNotExecuted ==
  \A n \in DOMAIN summaries :
    ~summaries[n].rejected =>
      \A i \in DOMAIN rules :
        (rules[i].isActive /\ Inert(rules[i])) =>
          rules[i].name \notin Range(summaries[n].executedRules)

(***************************************************************************)
(* C18.                                                                    *)
(***************************************************************************)
\* b holds the elements of a, each as many times as a does
Permutation(a, b) ==
  /\ Len(a) = Len(b)
  /\ \A x \in Range(a) \cup Range(b) :
       Cardinality({i \in DOMAIN a : a[i] = x}) = Cardinality({i \in DOMAIN b : b[i] = x})

\* C18: the list applySpecificRule returns is a permutation of the list it
\* received, and the same list in the same order when the rule's text contains
\* none of the recognized keywords.
OrderingTransform ==
  returned.op = "applySpecificRule" =>
    /\ Permutation(returned.workers, returned.result)
    /\ Inert(returned.rule) => returned.result = returned.workers

(***************************************************************************)
(* C19.                                                                    *)
(***************************************************************************)
\* the ten checks that produce findings, each with the validationType of its
\* findings, and the two rule-context checks
FindingChecks ==
  {<<"missing_required_columns", "missing_column">>,
   <<"duplicate_ids", "duplicate_id">>,
   <<"malformed_lists", "malformed_list">>,
   <<"out_of_range_values", "out_of_range">>,
   <<"broken_json", "broken_json">>,
   <<"unknown_references", "unknown_reference">>,
   <<"overloaded_workers", "overloaded_worker">>,
   <<"phase_slot_saturation", "phase_saturation">>,
   <<"skill_coverage", "skill_coverage">>,
   <<"max_concurrency", "max_concurrency">>}

RuleChecks == {"circular_corun_groups", "conflicting_rules"}

\* how many times the name is in the list
TimesIn(list, name) == Cardinality({k \in DOMAIN list : list[k] = name})

\* the summary records the twelve names as the claim says
NamesRecorded(summary) ==
  /\ \A check \in FindingChecks :
       /\ TimesIn(summary.passedValidations, check[1])
            + TimesIn(summary.failedValidations, check[1]) = 1
       /\ TimesIn(summary.failedValidations, check[1]) = 1
            <=> FindingsOf(summary, check[2]) # <<>>
  /\ \A name \in RuleChecks :
       /\ TimesIn(summary.passedValidations, name) = 1
       /\ TimesIn(summary.failedValidations, name) = 0

\* C19: every summary validateData returns has each of the twelve check names
\* in exactly one of passedValidations and failedValidations, in
\* failedValidations exactly when errors holds a finding of that check, and
\* the two rule-context checks in passedValidations.
CheckNamesRecorded ==
  \A n \in DOMAIN validations : NamesRecorded(validations[n])

(***************************************************************************)
(* C20.                                                                    *)
(***************************************************************************)
\* the records of the three entity kinds, each with its fixed column set
EntityKinds ==
  {<<clients, requiredClientColumns>>, <<workers, requiredWorkerColumns>>,
   <<tasks, requiredTaskColumns>>}

\* the missing_column findings of the summary on this column
MissingColumnFindings(summary, column) ==
  SelectSeq(FindingsOf(summary, "missing_column"), LAMBDA e : e.column = column)

\* the column has one missing_column error, on row -1 and of severity error,
\* when the first record lacks it, and none when the record has it
ColumnReported(summary, first, column) ==
  IF column \in DOMAIN first
    THEN MissingColumnFindings(summary, column) = <<>>
    ELSE /\ Len(MissingColumnFindings(summary, column)) = 1
         /\ MissingColumnFindings(summary, column)[1].row = 0 - 1
         /\ MissingColumnFindings(summary, column)[1].severity = "error"

\* C20: whenever validateData runs its checks to the end, for each of clients,
\* workers and tasks that has a record, every column of the kind's fixed
\* column set has exactly one missing_column error (row -1, severity error)
\* if the first record lacks it and none if the first record has it.
MissingColumnsReported ==
  \A n \in DOMAIN validations :
    validations[n] # systemError =>
      \A kind \in EntityKinds :
        Len(kind[1]) > 0 =>
          \A k \in DOMAIN kind[2] : ColumnReported(validations[n], kind[1][1], kind[2][k])

(***************************************************************************)
(* C21.                                                                    *)
(***************************************************************************)
\* how many workers hold every required skill of the task
QualifiedCount(task) == Cardinality({k \in 1..Len(workers) : Qualified(workers[k], task)})

\* the max_concurrency findings of the summary on the row of a task
ConcurrencyFindings(summary, row) ==
  SelectSeq(FindingsOf(summary, "max_concurrency"), LAMBDA e : e.row = row)

\* the task has one warning naming both numbers when its MaxConcurrent exceeds
\* the number of qualified workers, and none otherwise
ConcurrencyReported(summary, task, row) ==
  IF task.MaxConcurrent > QualifiedCount(task)
    THEN /\ Len(ConcurrencyFindings(summary, row)) = 1
         /\ ConcurrencyFindings(summary, row)[1].severity = "warning"
         /\ ConcurrencyFindings(summary, row)[1].message
              = <<task.MaxConcurrent, QualifiedCount(task)>>
    ELSE ConcurrencyFindings(summary, row) = <<>>

\* C21: whenever validateData runs its checks to the end, a task has a
\* max_concurrency warning if and only if its MaxConcurrent exceeds the number
\* of workers holding all of its required skills, and the warning names both
\* numbers.
MaxConcurrencyExact ==
  \A n \in DOMAIN validations :
    validations[n] # systemError =>
      \A i \in 1..Len(tasks) : ConcurrencyReported(validations[n], tasks[i], i - 1)

(***************************************************************************)
(* C22.                                                                    *)
(***************************************************************************)
\* C22: the list parseClient, parseWorker or parseTask makes of
\* RequestedTaskIDs, Skills or RequiredSkills is the sequence of the
\* comma-separated tokens of the text, trimmed, without the empty ones, in
\* the order of the text and with duplicates kept.
NormalizedTokens ==
  returned.op \in {"parseClient", "parseWorker", "parseTask"} =>
    returned.result = Tokens(returned.text)

Mentions(rule, words) ==
  \E word \in words : includesText(toLowerCase(rule.naturalLanguage), word)

\* the key the rule sorts a worker by, ascending; 0 for every worker when the
\* rule does not distinguish workers
RankBy(rule, client, worker) ==
  IF Mentions(rule, {T_senior, T_experienced, T_expert, T_qualification, T_level})
    THEN 0 - worker.QualificationLevel
  ELSE IF Mentions(rule, {T_balance, T_distribute, T_evenly}) THEN 0
  ELSE IF Mentions(rule, {T_cost, T_budget, T_cheap}) THEN worker.QualificationLevel
  ELSE IF Mentions(rule, {T_high_priority, T_urgent}) /\ client.PriorityLevel >= 4
    THEN 0 - worker.QualificationLevel
  ELSE 0

\* worker i comes before worker k: by the second rule, then by the first
\* rule, then by the place in the list received
ComesBefore(call, i, k) ==
  LET second(n) == RankBy(call.rules[2], call.client, call.workers[n])
      first(n) == RankBy(call.rules[1], call.client, call.workers[n])
  IN \/ second(i) < second(k)
     \/ second(i) = second(k) /\ first(i) < first(k)
     \/ second(i) = second(k) /\ first(i) = first(k) /\ i < k

PlaceOf(call, i) == 1 + Cardinality({k \in DOMAIN call.workers : ComesBefore(call, k, i)})

\* C26: with two ordering rules, applyBusinessRules returns the first
\* MaxConcurrent workers of the list ordered by the second rule, workers the
\* second rule ranks equal in the order of the first rule, and workers both
\* rank equal in the order received.
StableComposition ==
  (/\ returned.op = "applyBusinessRules"
   /\ \A n \in 1..2 : ~Mentions(returned.rules[n], {T_group, T_team})) =>
    /\ Len(returned.result) = Min(returned.task.MaxConcurrent, Len(returned.workers))
    /\ \A i \in DOMAIN returned.workers :
         PlaceOf(returned, i) <= Len(returned.result) =>
           returned.result[PlaceOf(returned, i)] = returned.workers[i]

\* a seniority rule followed by a balance rule: the result is in the order of
\* the seniority rule, not in the order received
EarlierRuleKept ==
  /\ returned.op = "applyBusinessRules"
  /\ Mentions(returned.rules[1], {T_senior})
  /\ Mentions(returned.rules[2], {T_evenly})
  /\ Len(returned.workers) = 3
  /\ returned.workers[1].QualificationLevel = 3
  /\ returned.workers[2].QualificationLevel = 8
  /\ returned.workers[3].QualificationLevel = 8
  /\ returned.result = <<returned.workers[2], returned.workers[3]>>

(***************************************************************************)
(* C28.                                                                    *)
(***************************************************************************)
\* how many entries of errors have the severity
EntriesOf(summary, severity) ==
  Cardinality({k \in DOMAIN summary.errors : summary.errors[k].severity = severity})

\* the counts of the summary are the counts of its errors, and it passed
\* exactly when it counts no error
Consistent(summary) ==
  /\ summary.totalErrors = EntriesOf(summary, "error")
  /\ summary.totalWarnings = EntriesOf(summary, "warning")
  /\ summary.totalInfo = EntriesOf(summary, "info")
  /\ summary.validationsPassed <=> summary.totalErrors = 0

\* C28: every summary returned by validateData of the Gemini provider, the
\* system-error one included, and by validateData of the HuggingFace provider
\* has totalErrors, totalWarnings and totalInfo equal to the numbers of its
\* errors of each severity, and validationsPassed true exactly when
\* totalErrors is 0.
SummaryConsistent ==
  /\ \A n \in DOMAIN validations : Consistent(validations[n])
  /\ returned.op = "HuggingFaceProvider.validateData" => Consistent(returned.result)

(***************************************************************************)
(* C24.                                                                    *)
(***************************************************************************)
\* the call was made for the next type not yet uploaded
NextInOrder(call) ==
  /\ ~call.uploadedFiles[call.type]
  /\ call.type = "workers" => call.uploadedFiles.clients
  /\ call.type = "tasks" => call.uploadedFiles.clients /\ call.uploadedFiles.workers

ErrorsOfData(sheets, k) ==
  SelectSeq(runComprehensiveBasicValidation(sheets[k], allOfType(sheets, "clients"),
              allOfType(sheets, "workers"), allOfType(sheets, "tasks"),
              /\ Len(allOfType(sheets, "clients")) > 0
              /\ Len(allOfType(sheets, "workers")) > 0
              /\ Len(allOfType(sheets, "tasks")) > 0),
            LAMBDA e : e.severity = "error")

\* C25: in every state of the page in which no validation is awaited, after
\* any sequence of uploads, validations, cell edits, applied corrections and
\* modifications, export is allowed only if a validation of the data as it
\* now stands finds no error-severity finding.
ExportGated ==
  (pending = <<>> /\ dataSheets # <<>> /\ canExport(dataSheets))
    => \A k \in 1..Len(dataSheets) : ErrorsOfData(dataSheets, k) = <<>>

(***************************************************************************)
(* C27.                                                                    *)
(***************************************************************************)
\* the findings of the provider's validateData for the validated sheets
CoreFindings(sheets) ==
  validateData(allOfType(sheets, "clients"), allOfType(sheets, "workers"),
               allOfType(sheets, "tasks")).errors

\* the finding is among the validationErrors of some sheet
Surfaced(finding, sheets) ==
  \E k \in 1..Len(sheets) : \E j \in DOMAIN sheets[k].validationErrors :
    /\ sheets[k].validationErrors[j].id = finding.id
    /\ sheets[k].validationErrors[j].key = finding.key

\* C27: when runComprehensiveValidation has run with an AI provider, every
\* finding of the provider's validateData for the validated data is among the
\* validationErrors of some sheet it stores, and an error-severity one makes
\* canExport false for them.
CoreFindingsSurfaced ==
  (returned.op = "runComprehensiveValidation" /\ returned.apiKey)
    => \A n \in DOMAIN CoreFindings(returned.sheets) :
         /\ Surfaced(CoreFindings(returned.sheets)[n], returned.result)
         /\ CoreFindings(returned.sheets)[n].severity = "error"
              => ~canExport(returned.result)

(***************************************************************************)
(* C29.                                                                    *)
(***************************************************************************)
\* C29: for every interleaving of the callers of one provider, at most
\* maxRequests calls pass waitForRateLimit in the windowMs that follow a
\* reset of the limiter.
WindowLimit == windowPassed <= maxRequests

(***************************************************************************)
(* C30.                                                                    *)
(***************************************************************************)
\* no (n+1)-th attempt, the text of the first attempt that gave one, a throw
\* only after the n-th attempt
WithinRetries ==
  request.pc # "none" =>
    /\ request.calls <= request.retries
    /\ request.pc = "returned" =>
         /\ request.outcomes[request.result] = "text"
         /\ \A k \in 1..(request.result - 1) : request.outcomes[k] # "text"
         /\ request.calls = request.result
    /\ request.pc = "thrown" =>
         /\ request.calls = request.retries
         /\ \A k \in 1..request.calls : request.outcomes[k] # "text"

Ended == request.pc \in {"returned", "thrown"}

\* C30: makeGeminiRequest with retries = n makes at most n API attempts,
\* returns the text of the first attempt that yields one, throws only after
\* the n-th attempt without a text, and always ends, whatever the attempts
\* produce.
BoundedRetry == []WithinRetries /\ <>Ended

\* a call with three retries has returned the text of its third attempt after
\* a 429 error and an empty response
ThirdAttemptReturned ==
  /\ request.pc = "returned"
  /\ request.retries = 3
  /\ request.outcomes = <<"429", "empty", "text">>
  /\ request.result = 3

====
